---- MODULE Spec2Model ----
(***************************************************************************)
(* Model of the subtitle segment engine of video-factory                   *)
(* (utils/subtitle.py), of the subtitle editor page that drives it, and    *)
(* of the translation and synthesis loops that consume its segments.       *)
(*                                                                         *)
(* Conventions                                                             *)
(*   - A time is a whole number of milliseconds (1.5 s is 1500).           *)
(*   - A Python str is a sequence of one-character strings.                *)
(*   - A Python dict is a function from key strings to values, so an       *)
(*     absent key is a key missing from DOMAIN.                            *)
(*   - A Python list of dicts is a sequence of object identifiers into     *)
(*     heap, so that two lists can share (alias) the same dict objects.    *)
(***************************************************************************)
EXTENDS Integers, Sequences, FiniteSets, TLC

VARIABLES
    heap,     \* object identifier -> dict (the segment records alive in memory)
    segs,     \* the list the caller of the editing operations currently holds
    session,  \* st.session_state of the editor page
    call      \* the last operation applied: its name, arguments and result

vars == <<heap, segs, session, call>>

-----------------------------------------------------------------------------
(* Bounds of the model *)

\* Longest segment list drawn as an input.
MaxLen == 3

-----------------------------------------------------------------------------
(* Python str helpers *)

\* The whitespace str.strip() and the regex class \s remove, within the
\* alphabet of the model.
Whitespace == {" ", "\n", "\t"}

RECURSIVE LStrip(_)
LStrip(s) ==
    IF s = <<>> THEN <<>>
    ELSE IF Head(s) \in Whitespace THEN LStrip(Tail(s)) ELSE s

RECURSIVE RStrip(_)
RStrip(s) ==
    IF s = <<>> THEN <<>>
    ELSE IF s[Len(s)] \in Whitespace THEN RStrip(SubSeq(s, 1, Len(s) - 1)) ELSE s

\* str.strip()
Strip(s) == RStrip(LStrip(s))

\* str.split(sep) for a one-character separator: always at least one piece.
RECURSIVE SplitChar(_, _)
SplitChar(s, sep) ==
    IF \A i \in 1..Len(s) : s[i] # sep THEN <<s>>
    ELSE LET p == CHOOSE i \in 1..Len(s) :
                      s[i] = sep /\ \A j \in 1..(i - 1) : s[j] # sep
         IN  <<SubSeq(s, 1, p - 1)>> \o SplitChar(SubSeq(s, p + 1, Len(s)), sep)

\* sep.join(parts)
RECURSIVE Join(_, _)
Join(parts, sep) ==
    IF parts = <<>> THEN <<>>
    ELSE IF Len(parts) = 1 THEN parts[1]
    ELSE parts[1] \o sep \o Join(Tail(parts), sep)

\* Length of the run of newlines starting at position p of s.
RECURSIVE NewlineRun(_, _)
NewlineRun(s, p) ==
    IF p > Len(s) \/ s[p] # "\n" THEN 0 ELSE 1 + NewlineRun(s, p + 1)

\* re.split(r'\n\n+', s): cut at every maximal run of two or more newlines.
RECURSIVE SplitBlankLines(_)
SplitBlankLines(s) ==
    IF \A i \in 1..Len(s) : NewlineRun(s, i) < 2 THEN <<s>>
    ELSE LET p == CHOOSE i \in 1..Len(s) :
                      NewlineRun(s, i) >= 2 /\ \A j \in 1..(i - 1) : NewlineRun(s, j) < 2
         IN  <<SubSeq(s, 1, p - 1)>>
                 \o SplitBlankLines(SubSeq(s, p + NewlineRun(s, p), Len(s)))

DigitChars == <<"0", "1", "2", "3", "4", "5", "6", "7", "8", "9">>

IsDigit(c) == \E i \in 1..10 : DigitChars[i] = c

DigitVal(c) == (CHOOSE i \in 1..10 : DigitChars[i] = c) - 1

\* str(n) for n >= 0
RECURSIVE DecStr(_)
DecStr(n) ==
    IF n < 10 THEN <<DigitChars[n + 1]>>
    ELSE DecStr(n \div 10) \o <<DigitChars[(n % 10) + 1]>>

\* f"{n:0<w>d}" for n >= 0: zero-padded to at least w digits, never cut.
RECURSIVE ZeroPad(_, _)
ZeroPad(s, w) == IF Len(s) >= w THEN s ELSE ZeroPad(<<"0">> \o s, w)

FormatInt(n, w) == ZeroPad(DecStr(n), w)

\* int(digits) for a non-empty sequence of digit characters
RECURSIVE DigitsVal(_)
DigitsVal(s) ==
    IF s = <<>> THEN 0
    ELSE DigitsVal(SubSeq(s, 1, Len(s) - 1)) * 10 + DigitVal(s[Len(s)])

AllDigits(s) == s # <<>> /\ \A i \in 1..Len(s) : IsDigit(s[i])

\* int(s) succeeds: optional surrounding whitespace, optional sign, digits.
IsIntLiteral(s) ==
    LET t == Strip(s) IN
    /\ t # <<>>
    /\ IF t[1] \in {"+", "-"} THEN AllDigits(Tail(t)) ELSE AllDigits(t)

IntLiteral(s) ==
    LET t == Strip(s) IN
    IF t[1] = "-" THEN 0 - DigitsVal(Tail(t))
    ELSE IF t[1] = "+" THEN DigitsVal(Tail(t))
    ELSE DigitsVal(t)

-----------------------------------------------------------------------------
(* Timestamp codec: utils/subtitle.py, lines 22-78 *)

\* The sample times (ms) the codec is exercised on: zero, sub-second values,
\* minute and hour boundaries, and times of 100 hours or more.
TimeGrid ==
    {0, 1, 50, 100, 999, 1000, 1001, 1002, 1500, 2000, 3500, 5000, 10000,
     59999, 60000, 61001, 3599999, 3600000, 3661001,
     359999999, 360000000, 360001000, 360001001, 400000000}

\* The times of TimeGrid on which int((seconds - int(seconds)) * 1000),
\* evaluated in IEEE-754 binary64 as CPython does, is one less than the
\* millisecond part: the double nearest to 1.001 is below 1.001, so its
\* fractional part times 1000 is 0.99999999999989 and int() cuts it to 0.
TruncatedDown == {1001, 61001, 3599999, 360001001}

\* millis = int((seconds - int(seconds)) * 1000)
FracMillis(ms) == IF ms \in TruncatedDown THEN (ms % 1000) - 1 ELSE ms % 1000

FormatTimestamp(ms, sep) ==
    LET whole   == ms \div 1000
        hours   == whole \div 3600
        minutes == (whole % 3600) \div 60
        secs    == whole % 60
        millis  == FracMillis(ms)
    IN  FormatInt(hours, 2) \o <<":">> \o FormatInt(minutes, 2) \o <<":">>
            \o FormatInt(secs, 2) \o <<sep>> \o FormatInt(millis, 3)

format_timestamp_srt(ms) == FormatTimestamp(ms, ",")

format_timestamp_vtt(ms) == FormatTimestamp(ms, ".")

\* s[p..p+n-1] are n digits
DigitsAt(s, p, n) == p + n - 1 <= Len(s) /\ \A i \in p..(p + n - 1) : IsDigit(s[i])

CharAt(s, p, cs) == p <= Len(s) /\ s[p] \in cs

\* Variant: only the comma is accepted before the milliseconds.
MatchFullAt_CommaOnly(s, p) ==
    /\ DigitsAt(s, p, 2) /\ CharAt(s, p + 2, {":"})
    /\ DigitsAt(s, p + 3, 2) /\ CharAt(s, p + 5, {":"})
    /\ DigitsAt(s, p + 6, 2) /\ CharAt(s, p + 8, {","})
    /\ DigitsAt(s, p + 9, 3)

\* (\d{2}):(\d{2}):(\d{2})[,.](\d{3}) matches s at position p
MatchFullAt(s, p) ==
    /\ DigitsAt(s, p, 2) /\ CharAt(s, p + 2, {":"})
    /\ DigitsAt(s, p + 3, 2) /\ CharAt(s, p + 5, {":"})
    /\ DigitsAt(s, p + 6, 2) /\ CharAt(s, p + 8, {",", "."})
    /\ DigitsAt(s, p + 9, 3)

\* (\d{2}):(\d{2})[.,](\d{3}) matches s at position p
MatchShortAt(s, p) ==
    /\ DigitsAt(s, p, 2) /\ CharAt(s, p + 2, {":"})
    /\ DigitsAt(s, p + 3, 2) /\ CharAt(s, p + 5, {",", "."})
    /\ DigitsAt(s, p + 6, 3)

FullLen == 12

ShortLen == 9

FullValue(t) ==
    DigitsVal(SubSeq(t, 1, 2)) * 3600000 + DigitsVal(SubSeq(t, 4, 5)) * 60000
        + DigitsVal(SubSeq(t, 7, 8)) * 1000 + DigitsVal(SubSeq(t, 10, 12))

ShortValue(t) ==
    DigitsVal(SubSeq(t, 1, 2)) * 60000 + DigitsVal(SubSeq(t, 4, 5)) * 1000
        + DigitsVal(SubSeq(t, 7, 9))

parse_timestamp_srt(timestamp) ==
    LET t == Strip(timestamp) IN
    IF ~MatchFullAt(t, 1) THEN 0 ELSE FullValue(t)

parse_timestamp_vtt(timestamp) ==
    LET t == Strip(timestamp) IN
    IF MatchFullAt(t, 1) THEN FullValue(t)
    ELSE IF MatchShortAt(t, 1) THEN ShortValue(t)
    ELSE 0

-----------------------------------------------------------------------------
(* Format parser and generator: utils/subtitle.py, lines 81-252 *)

\* First position >= p of s that holds no whitespace (Len(s) + 1 if none): \s*
RECURSIVE SkipWs(_, _)
SkipWs(s, p) ==
    IF p <= Len(s) /\ s[p] \in Whitespace THEN SkipWs(s, p + 1) ELSE p

ArrowAt(s, p) == p + 2 <= Len(s) /\ SubSeq(s, p, p + 2) = <<"-", "-", ">">>

\* Position of the second timestamp when
\* (\d{2}:\d{2}:\d{2}[,\.]\d{3})\s*-->\s*(\d{2}:\d{2}:\d{2}[,\.]\d{3})
\* matches at the start of t, and 0 when it does not.
SrtTimingMatch(t) ==
    IF ~MatchFullAt(t, 1) THEN 0
    ELSE LET a == SkipWs(t, FullLen + 1) IN
         IF ~ArrowAt(t, a) THEN 0
         ELSE LET b == SkipWs(t, a + 3) IN
              IF MatchFullAt(t, b) THEN b ELSE 0

\* The segments parse_srt appends for one block: one dict or none.
SrtBlock(block) ==
    LET lines == SplitChar(Strip(block), "\n") IN
    IF Len(lines) < 3 THEN <<>>
    ELSE IF ~IsIntLiteral(lines[1]) THEN <<>>
    ELSE LET t == Strip(lines[2])
             b == SrtTimingMatch(t)
         IN  IF b = 0 THEN <<>>
             ELSE << [index |-> IntLiteral(lines[1]),
                      start |-> parse_timestamp_srt(SubSeq(t, 1, FullLen)),
                      end   |-> parse_timestamp_srt(SubSeq(t, b, b + FullLen - 1)),
                      text  |-> Strip(Join(SubSeq(lines, 3, Len(lines)), <<"\n">>))] >>

\* Variant: the loop stops at the first block it cannot read.
RECURSIVE SrtBlocks_StopAtMalformed(_)
SrtBlocks_StopAtMalformed(blocks) ==
    IF blocks = <<>> \/ SrtBlock(Head(blocks)) = <<>> THEN <<>>
    ELSE SrtBlock(Head(blocks)) \o SrtBlocks_StopAtMalformed(Tail(blocks))

RECURSIVE SrtBlocks(_)
SrtBlocks(blocks) ==
    IF blocks = <<>> THEN <<>> ELSE SrtBlock(Head(blocks)) \o SrtBlocks(Tail(blocks))

\* SubtitleParser.parse_srt: the list of dicts it returns.
parse_srt(content) == SrtBlocks(SplitBlankLines(Strip(content)))

\* The text generate_srt writes for the segments from position i on.
RECURSIVE SrtText(_, _)
SrtText(segments, i) ==
    IF i > Len(segments) THEN <<>>
    ELSE DecStr(i) \o <<"\n">>
            \o format_timestamp_srt(segments[i].start) \o <<" ", "-", "-", ">", " ">>
            \o format_timestamp_srt(segments[i].end) \o <<"\n">>
            \o Strip(segments[i].text) \o <<"\n", "\n">>
            \o SrtText(segments, i + 1)

\* SubtitleGenerator.generate_srt: the content of the file it writes.
generate_srt(segments) == SrtText(segments, 1)

\* WEBVTT
VttMagic == <<"W", "E", "B", "V", "T", "T">>

\* Positions i >= 7 where content holds two newlines in a row
HeaderEnds(content) ==
    {i \in 7..(Len(content) - 1) : content[i] = "\n" /\ content[i + 1] = "\n"}

\* re.sub(r'^WEBVTT.*?\n\n', '', content, flags=re.DOTALL): a content that
\* starts with WEBVTT loses everything up to and including the first blank
\* line after it.
StripHeader(content) ==
    IF /\ Len(content) >= 6
       /\ SubSeq(content, 1, 6) = VttMagic
       /\ HeaderEnds(content) # {}
    THEN LET p == CHOOSE i \in HeaderEnds(content) :
                      \A j \in HeaderEnds(content) : i <= j
         IN  SubSeq(content, p + 2, Len(content))
    ELSE content

\* '-->' in line
HasArrow(line) == \E p \in 1..Len(line) : ArrowAt(line, p)

\* The first line (from 1) that holds -->, and 0 when none does.
FirstArrowLine(lines) ==
    IF \A i \in 1..Len(lines) : ~HasArrow(lines[i]) THEN 0
    ELSE CHOOSE i \in 1..Len(lines) :
             HasArrow(lines[i]) /\ \A j \in 1..(i - 1) : ~HasArrow(lines[j])

\* Length of what (\d{2}:\d{2}:\d{2}[.,]\d{3}|\d{2}:\d{2}[.,]\d{3}) matches
\* at position p of t, and 0 when it does not match.
StampLenAt(t, p) ==
    IF MatchFullAt(t, p) THEN FullLen
    ELSE IF MatchShortAt(t, p) THEN ShortLen
    ELSE 0

\* The two groups of the timing pattern of parse_vtt matched at the start
\* of t, or <<>> when it does not match.
VttTimingMatch(t) ==
    LET n1 == StampLenAt(t, 1) IN
    IF n1 = 0 THEN <<>>
    ELSE LET a == SkipWs(t, n1 + 1) IN
         IF ~ArrowAt(t, a) THEN <<>>
         ELSE LET b  == SkipWs(t, a + 3)
                  n2 == StampLenAt(t, b)
              IN  IF n2 = 0 THEN <<>>
                  ELSE <<SubSeq(t, 1, n1), SubSeq(t, b, b + n2 - 1)>>

\* What parse_vtt takes from one block: one cue (without its index) or none.
VttBlock(block) ==
    LET lines         == SplitChar(Strip(block), "\n")
        time_line_idx == FirstArrowLine(lines)
    IN  IF time_line_idx = 0 THEN <<>>
        ELSE LET time_match == VttTimingMatch(Strip(lines[time_line_idx])) IN
             IF time_match = <<>> THEN <<>>
             ELSE << [start |-> parse_timestamp_vtt(time_match[1]),
                      end   |-> parse_timestamp_vtt(time_match[2]),
                      text  |-> Strip(Join(SubSeq(lines, time_line_idx + 1, Len(lines)),
                                           <<"\n">>))] >>

\* Variant: the counter also advances on a block that is skipped.
RECURSIVE VttBlocks_CountSkipped(_, _)
VttBlocks_CountSkipped(blocks, index) ==
    IF blocks = <<>> THEN <<>>
    ELSE LET cue == VttBlock(Head(blocks)) IN
         IF cue = <<>> THEN VttBlocks_CountSkipped(Tail(blocks), index + 1)
         ELSE <<(cue[1] @@ [index |-> index + 1])>>
                  \o VttBlocks_CountSkipped(Tail(blocks), index + 1)

\* The loop of parse_vtt over the blocks; index counts the cues appended.
RECURSIVE VttBlocks(_, _)
VttBlocks(blocks, index) ==
    IF blocks = <<>> THEN <<>>
    ELSE LET cue == VttBlock(Head(blocks)) IN
         IF cue = <<>> THEN VttBlocks(Tail(blocks), index)
         ELSE <<(cue[1] @@ [index |-> index + 1])>>
                  \o VttBlocks(Tail(blocks), index + 1)

\* SubtitleParser.parse_vtt: the list of dicts it returns.
parse_vtt(content) == VttBlocks(SplitBlankLines(Strip(StripHeader(content))), 0)

\* The text generate_vtt writes for the segments from position i on.
RECURSIVE VttText(_, _)
VttText(segments, i) ==
    IF i > Len(segments) THEN <<>>
    ELSE DecStr(i) \o <<"\n">>
            \o format_timestamp_vtt(segments[i].start) \o <<" ", "-", "-", ">", " ">>
            \o format_timestamp_vtt(segments[i].end) \o <<"\n">>
            \o Strip(segments[i].text) \o <<"\n", "\n">>
            \o VttText(segments, i + 1)

\* SubtitleGenerator.generate_vtt: the content of the file it writes.
generate_vtt(segments) == VttMagic \o <<"\n", "\n">> \o VttText(segments, 1)

-----------------------------------------------------------------------------
(* The editor page's table: pages/2 (the subtitle editor), lines 31-84 *)

\* Times t (ms) with t % 10 = 5 whose seconds f"{secs:05.2f}" rounds up: the
\* binary64 value of t / 1000 % 60 lies above the half-way point. Every
\* other time with t % 10 = 5 that reaches the table is rounded down.
HalfRoundsUp ==
    { 25, 65, 85, 165, 225, 265, 275, 375, 535, 1165, 1175, 1225, 1375, 1475,
      1635, 1725, 1875, 1885, 1975, 2075, 2225, 2375, 2475, 2535, 2725, 2875,
      2975, 3075, 3265, 3375, 3475, 3725, 3825, 3875, 3975, 4365, 4575, 4875 }

\* round(secs, 2) of f"{secs:05.2f}", in hundredths, for secs = t / 1000 % 60
SecsHundredths(t) ==
    LET rem == t % 60000 IN
    IF rem % 10 > 5 \/ (rem % 10 = 5 /\ t \in HalfRoundsUp)
    THEN rem \div 10 + 1
    ELSE rem \div 10

\* format_time_display(seconds) = f"{minutes:02d}:{secs:05.2f}"
format_time_display(seconds) ==
    LET minutes == seconds \div 60000
        secs    == SecsHundredths(seconds)
    IN  FormatInt(minutes, 2) \o <<":">> \o FormatInt(secs \div 100, 2)
            \o <<".">> \o FormatInt(secs % 100, 2)

\* float(s) succeeds: digits, optionally a point and more digits.
IsFloatLiteral(s) ==
    LET parts == SplitChar(Strip(s), ".") IN
    \/ Len(parts) = 1 /\ AllDigits(parts[1])
    \/ /\ Len(parts) = 2
       /\ parts[1] \o parts[2] # <<>>
       /\ \A i \in 1..2 : parts[i] = <<>> \/ AllDigits(parts[i])

\* float(s) in ms; a time is a whole number of ms, so digits after the third
\* decimal place are not followed.
FloatLiteral(s) ==
    LET parts == SplitChar(Strip(s), ".")
        frac  == IF Len(parts) = 2 THEN parts[2] ELSE <<>>
        first == SubSeq(frac \o <<"0", "0", "0">>, 1, 3)
    IN  DigitsVal(parts[1]) * 1000 + DigitsVal(first)

\* parse_time_display(time_str); any exception gives 0.0
parse_time_display(time_str) ==
    IF (\E i \in 1..Len(time_str) : time_str[i] = ",") \/ Len(time_str) > 8
    THEN parse_timestamp_srt(time_str)
    ELSE LET parts == SplitChar(time_str, ":") IN
         IF Len(parts) = 2
         THEN IF IsIntLiteral(parts[1]) /\ IsFloatLiteral(parts[2])
              THEN IntLiteral(parts[1]) * 60000 + FloatLiteral(parts[2])
              ELSE 0
         ELSE IF Len(parts) = 3
         THEN IF /\ IsIntLiteral(parts[1]) /\ IsIntLiteral(parts[2])
                 /\ IsFloatLiteral(parts[3])
              THEN IntLiteral(parts[1]) * 3600000 + IntLiteral(parts[2]) * 60000
                       + FloatLiteral(parts[3])
              ELSE 0
         ELSE 0

\* seg.get('original', '')
GetOriginal(seg) == IF "original" \in DOMAIN seg THEN seg.original ELSE <<>>

\* segments_to_dataframe(segments): one row per segment; the columns are
\* the row number, the start and the end as displayed, the text and the
\* source text.
segments_to_dataframe(segments) ==
    [i \in 1..Len(segments) |->
        [number   |-> i,
         start    |-> format_time_display(segments[i].start),
         end      |-> format_time_display(segments[i].end),
         text     |-> segments[i].text,
         original |-> GetOriginal(segments[i])]]

\* dataframe_to_segments(df): new dicts with start, end, text and original.
dataframe_to_segments(df) ==
    [i \in 1..Len(df) |->
        [start    |-> parse_time_display(df[i].start),
         end      |-> parse_time_display(df[i].end),
         text     |-> df[i].text,
         original |-> df[i].original]]

-----------------------------------------------------------------------------
(* Inputs of the codec, parser and generator *)

HelloWorld == <<"H", "e", "l", "l", "o", " ", "w", "o", "r", "l", "d">>

Bye == <<"B", "y", "e">>

TwoLines == <<"a", "\n", "b">>

\* Segments handed to the generator: all have end > start >= 0 and a
\* non-empty text; one text spans two lines, one lies beyond 100 hours.
TextSamples ==
    { [start |-> 1000, end |-> 3500, text |-> HelloWorld],
      [start |-> 3500, end |-> 5000, text |-> Bye],
      [start |-> 0, end |-> 1500, text |-> TwoLines],
      [start |-> 1002, end |-> 2000, text |-> Bye],
      [start |-> 1000, end |-> 1001, text |-> Bye],
      [start |-> 360000000, end |-> 360001000, text |-> Bye] }

RECURSIVE ListsUpTo(_, _)
ListsUpTo(S, n) ==
    IF n = 0 THEN {<<>>}
    ELSE LET shorter == ListsUpTo(S, n - 1)
         IN  shorter \cup {Append(l, x) : l \in {m \in shorter : Len(m) = n - 1}, x \in S}

NoCall == [op |-> "none"]

\* An optional list: None, or the list itself wrapped.
None == <<>>

Some(l) == <<l>>

\* if x: a list that is neither None nor empty
Truthy(x) == x # None /\ x[1] # <<>>

\* st.session_state before the editor page has loaded anything and before
\* the processing page has produced anything (app.py, lines 43-46; the
\* editor page, lines 94-97).
NoSession ==
    [editor_segments |-> None, editor_source |-> "None",
     segments |-> None, translated_segments |-> None]

-----------------------------------------------------------------------------
(* SpecText: the codec, the generator and the parser applied to inputs *)

InitText ==
    /\ heap = <<>>
    /\ segs = <<>>
    /\ session = NoSession
    /\ call = NoCall

FormatSrt ==
    /\ call = NoCall
    /\ \E s \in TimeGrid :
        /\ call' = [op |-> "format_timestamp_srt", seconds |-> s,
                    ret |-> format_timestamp_srt(s)]
        /\ UNCHANGED <<heap, segs, session>>

FormatVtt ==
    /\ call = NoCall
    /\ \E s \in TimeGrid :
        /\ call' = [op |-> "format_timestamp_vtt", seconds |-> s,
                    ret |-> format_timestamp_vtt(s)]
        /\ UNCHANGED <<heap, segs, session>>

\* parse_timestamp_srt applied to what format_timestamp_srt returned
ParseFormattedSrt ==
    /\ call.op = "format_timestamp_srt"
    /\ call' = [op |-> "parse_timestamp_srt", timestamp |-> call.ret,
                encoded |-> call.seconds, ret |-> parse_timestamp_srt(call.ret)]
    /\ UNCHANGED <<heap, segs, session>>

ParseFormattedVtt ==
    /\ call.op = "format_timestamp_vtt"
    /\ call' = [op |-> "parse_timestamp_vtt", timestamp |-> call.ret,
                encoded |-> call.seconds, ret |-> parse_timestamp_vtt(call.ret)]
    /\ UNCHANGED <<heap, segs, session>>

GenerateSrt ==
    /\ call = NoCall
    /\ \E l \in ListsUpTo(TextSamples, MaxLen) :
        /\ call' = [op |-> "generate_srt", segments |-> l, file |-> generate_srt(l)]
        /\ UNCHANGED <<heap, segs, session>>

\* parse_srt applied to the file generate_srt wrote
ParseGeneratedSrt ==
    /\ call.op = "generate_srt"
    /\ call' = [op |-> "parse_srt", content |-> call.file,
                generated |-> call.segments, ret |-> parse_srt(call.file)]
    /\ UNCHANGED <<heap, segs, session>>

\* The strings handed to the decoders: well-formed timestamps with either
\* separator, the short form, and strings that are no timestamp.
TimestampSamples ==
    { <<"0", "0", ":", "0", "0", ":", "0", "1", ",", "0", "0", "0">>,
      <<"0", "0", ":", "0", "0", ":", "0", "1", ".", "0", "0", "0">>,
      <<"0", "1", ":", "0", "2", ":", "0", "3", ",", "0", "0", "4">>,
      <<"0", "1", ":", "0", "2", ":", "0", "3", ".", "0", "0", "4">>,
      <<" ", "0", "0", ":", "0", "0", ":", "0", "1", ",", "5", "0", "0",
        "\n">>,
      <<"9", "9", ":", "5", "9", ":", "5", "9", ".", "9", "9", "9">>,
      <<"1", "0", "0", ":", "0", "0", ":", "0", "0", ",", "0", "0", "0">>,
      <<"0", ":", "0", "0", ":", "0", "1", ",", "0", "0", "0">>,
      <<"0", "0", ":", "0", "0", ":", "0", "1", ";", "0", "0", "0">>,
      <<>>,
      <<"a", "b", "c">>,
      <<"0", "0", ":", "0", "1", ".", "5", "0", "0">>,
      <<"0", "0", ":", "0", "1", ",", "5", "0", "0">>,
      <<"0", "0", ":", "0", "0", ":", "0", "1", ",", "0", "0">>,
      <<"0", "0", ":", "0", "0", ":", "0", "1", ",", "0", "0", "0", "x">> }

\* Blocks of an SRT document, each with the segments a reader of the format
\* takes from it: one for a block of at least three lines whose first line
\* is an integer and whose second line is timestamp --> timestamp, none for
\* any other block.
BlockSamples ==
    { \* well formed
      [text |->
          <<"1", "\n", "0", "0", ":", "0", "0", ":", "0", "1", ",", "0",
            "0", "0", " ", "-", "-", ">", " ", "0", "0", ":", "0", "0", ":",
            "0", "3", ",", "5", "0", "0", "\n", "H", "e", "l", "l", "o",
            " ", "w", "o", "r", "l", "d">>,
       segments |-> <<[index |-> 1, start |-> 1000, end |-> 3500, text |-> HelloWorld]>>],
      \* well formed: dots, no space around the arrow, two text lines
      [text |->
          <<"7", "\n", "0", "0", ":", "0", "0", ":", "0", "3", ".", "5",
            "0", "0", "-", "-", ">", "0", "0", ":", "0", "0", ":", "0", "5",
            ".", "0", "0", "0", "\n", "a", "\n", "b">>,
       segments |-> <<[index |-> 7, start |-> 3500, end |-> 5000, text |-> TwoLines]>>],
      \* the first line is no integer
      [text |->
          <<"x", "\n", "0", "0", ":", "0", "0", ":", "0", "1", ",", "0",
            "0", "0", " ", "-", "-", ">", " ", "0", "0", ":", "0", "0", ":",
            "0", "3", ",", "5", "0", "0", "\n", "B", "y", "e">>,
       segments |-> <<>>],
      \* the second line has no -->
      [text |->
          <<"2", "\n", "0", "0", ":", "0", "0", ":", "0", "1", ",", "0",
            "0", "0", " ", "-", ">", " ", "0", "0", ":", "0", "0", ":", "0",
            "3", ",", "5", "0", "0", "\n", "B", "y", "e">>,
       segments |-> <<>>],
      \* two lines only
      [text |->
          <<"2", "\n", "0", "0", ":", "0", "0", ":", "0", "1", ",", "0",
            "0", "0", " ", "-", "-", ">", " ", "0", "0", ":", "0", "0", ":",
            "0", "3", ",", "5", "0", "0">>,
       segments |-> <<>>],
      \* the first timestamp has a one-digit hour field
      [text |->
          <<"3", "\n", "0", ":", "0", "0", ":", "0", "1", ",", "0", "0",
            "0", " ", "-", "-", ">", " ", "0", "0", ":", "0", "0", ":", "0",
            "3", ",", "5", "0", "0", "\n", "B", "y", "e">>,
       segments |-> <<>>],
      \* one line only
      [text |->
          <<"B", "y", "e">>,
       segments |-> <<>>] }

\* The separators written between two blocks: one blank line, or two.
BlankLines == {<<"\n", "\n">>, <<"\n", "\n", "\n">>}

\* parse_timestamp_srt applied to a string read from a file
ParseSrtTimestamp ==
    /\ call = NoCall
    /\ \E t \in TimestampSamples :
        /\ call' = [op |-> "parse_srt_timestamp", timestamp |-> t,
                    ret |-> parse_timestamp_srt(t)]
        /\ UNCHANGED <<heap, segs, session>>

ParseVttTimestamp ==
    /\ call = NoCall
    /\ \E t \in TimestampSamples :
        /\ call' = [op |-> "parse_vtt_timestamp", timestamp |-> t,
                    ret |-> parse_timestamp_vtt(t)]
        /\ UNCHANGED <<heap, segs, session>>

\* parse_srt applied to a document of up to MaxLen blocks
ParseDocument ==
    /\ call = NoCall
    /\ \E blocks \in ListsUpTo(BlockSamples, MaxLen), sep \in BlankLines :
        LET content == Join([i \in 1..Len(blocks) |-> blocks[i].text], sep) IN
        /\ call' = [op |-> "parse_document", blocks |-> blocks, content |-> content,
                    ret |-> parse_srt(content)]
        /\ UNCHANGED <<heap, segs, session>>

\* Blocks of a VTT document, each with the cue a reader of the format takes
\* from it: one for a block whose first line holding --> is a timing line,
\* none for any other block.
VttBlockSamples ==
    { \* short timestamps, no identifier
      [text |->
          <<"0", "0", ":", "0", "1", ".", "0", "0", "0", " ", "-", "-", ">",
            " ", "0", "0", ":", "0", "3", ".", "5", "0", "0", "\n", "H",
            "e", "l", "l", "o", " ", "w", "o", "r", "l", "d">>,
       segments |-> <<[start |-> 1000, end |-> 3500, text |-> HelloWorld]>>],
      \* a cue identifier before the timing line, two text lines
      [text |->
          <<"c", "u", "e", "-", "9", "\n", "0", "0", ":", "0", "0", ":",
            "0", "3", ".", "5", "0", "0", " ", "-", "-", ">", " ", "0", "0",
            ":", "0", "0", ":", "0", "5", ".", "0", "0", "0", "\n", "a",
            "\n", "b">>,
       segments |-> <<[start |-> 3500, end |-> 5000, text |-> TwoLines]>>],
      \* a numeric identifier, commas, no space around the arrow
      [text |->
          <<"7", "\n", "0", "0", ":", "0", "0", ":", "0", "3", ",", "5",
            "0", "0", "-", "-", ">", "0", "0", ":", "0", "0", ":", "0", "5",
            ",", "0", "0", "0", "\n", "B", "y", "e">>,
       segments |-> <<[start |-> 3500, end |-> 5000, text |-> Bye]>>],
      \* no line with -->
      [text |->
          <<"N", "O", "T", "E", " ", "x">>,
       segments |-> <<>>],
      \* the first line with --> is no timing line
      [text |->
          <<"a", " ", "-", "-", ">", " ", "b", "\n", "0", "0", ":", "0",
            "0", ":", "0", "1", ".", "0", "0", "0", " ", "-", "-", ">", " ",
            "0", "0", ":", "0", "0", ":", "0", "2", ".", "0", "0", "0",
            "\n", "B", "y", "e">>,
       segments |-> <<>>],
      \* a one-digit minute field
      [text |->
          <<"0", ":", "0", "1", ".", "0", "0", "0", " ", "-", "-", ">", " ",
            "0", "0", ":", "0", "2", ".", "0", "0", "0", "\n", "B", "y", "e">>,
       segments |-> <<>>] }

\* The header a VTT file starts with, or none.
VttHeaders == {<<>>, VttMagic \o <<"\n", "\n">>}

\* parse_vtt applied to a document of up to MaxLen blocks
ParseVttDocument ==
    /\ call = NoCall
    /\ \E blocks \in ListsUpTo(VttBlockSamples, MaxLen), header \in VttHeaders :
        LET content == header
                \o Join([i \in 1..Len(blocks) |-> blocks[i].text], <<"\n", "\n">>)
        IN
        /\ call' = [op |-> "parse_vtt_document", blocks |-> blocks,
                    content |-> content, ret |-> parse_vtt(content)]
        /\ UNCHANGED <<heap, segs, session>>

GenerateVtt ==
    /\ call = NoCall
    /\ \E l \in ListsUpTo(TextSamples, MaxLen) :
        /\ call' = [op |-> "generate_vtt", segments |-> l, file |-> generate_vtt(l)]
        /\ UNCHANGED <<heap, segs, session>>

\* parse_vtt applied to the file generate_vtt wrote
ParseGeneratedVtt ==
    /\ call.op = "generate_vtt"
    /\ call' = [op |-> "parse_vtt", content |-> call.file,
                generated |-> call.segments, ret |-> parse_vtt(call.file)]
    /\ UNCHANGED <<heap, segs, session>>

\* The table built from a list and read back
TableRoundTrip ==
    /\ call = NoCall
    /\ \E l \in ListsUpTo(TextSamples, MaxLen) :
        /\ call' = [op |-> "table_round_trip", segments |-> l,
                    df |-> segments_to_dataframe(l),
                    ret |-> dataframe_to_segments(segments_to_dataframe(l))]
        /\ UNCHANGED <<heap, segs, session>>

NextText ==
    \/ FormatSrt
    \/ FormatVtt
    \/ ParseFormattedSrt
    \/ ParseFormattedVtt
    \/ GenerateSrt
    \/ ParseGeneratedSrt
    \/ ParseSrtTimestamp
    \/ ParseVttTimestamp
    \/ ParseDocument
    \/ ParseVttDocument
    \/ GenerateVtt
    \/ ParseGeneratedVtt
    \/ TableRoundTrip

SpecText == InitText /\ [][NextText]_vars

\* C1: timestamp round trip. For every time s >= 0 in whole milliseconds,
\* with no upper bound, parse_timestamp_srt(format_timestamp_srt(s)) = s and
\* parse_timestamp_vtt(format_timestamp_vtt(s)) = s.
C1_TimestampRoundTrip ==
    call.op \in {"parse_timestamp_srt", "parse_timestamp_vtt"}
        => call.ret = call.encoded

\* C2: SRT round trip. parse_srt applied to the text generate_srt wrote for
\* well-formed segments returns as many segments, the i-th with the start,
\* end and text of the i-th input and with index i.
WellFormedInput(seg) == seg.start >= 0 /\ seg.end > seg.start /\ seg.text # <<>>

C2_SrtRoundTrip ==
    ( /\ call.op = "parse_srt"
      /\ \A i \in 1..Len(call.generated) : WellFormedInput(call.generated[i]) )
        => /\ Len(call.ret) = Len(call.generated)
           /\ \A i \in 1..Len(call.ret) :
                /\ call.ret[i].start = call.generated[i].start
                /\ call.ret[i].end = call.generated[i].end
                /\ call.ret[i].text = call.generated[i].text
                /\ call.ret[i].index = i

\* t starts with two digits, a colon, two digits, a colon, two digits, a
\* comma or a dot, three digits.
FullForm(t) ==
    /\ Len(t) >= 12
    /\ t[3] = ":" /\ t[6] = ":" /\ t[9] \in {",", "."}
    /\ \A i \in {1, 2, 4, 5, 7, 8, 10, 11, 12} : IsDigit(t[i])

\* t starts with two digits, a colon, two digits, a comma or a dot, three
\* digits.
ShortForm(t) ==
    /\ Len(t) >= 9
    /\ t[3] = ":" /\ t[6] \in {",", "."}
    /\ \A i \in {1, 2, 4, 5, 7, 8, 9} : IsDigit(t[i])

\* t with the character at position p replaced by sep
WithSeparator(t, p, sep) == [t EXCEPT ![p] = sep]

\* C18: the decoders are total. On a string that does not match their
\* pattern they return 0; on a well-formed timestamp they return the same
\* value with ',' and with '.' before the milliseconds. parse_timestamp_vtt
\* reads the short form MM:SS.mmm as well.
C18_DecodeFallback ==
    /\ call.op = "parse_srt_timestamp" =>
         LET t == Strip(call.timestamp) IN
         /\ call.ret \in Nat
         /\ ~FullForm(t) => call.ret = 0
         /\ FullForm(t) =>
              /\ parse_timestamp_srt(WithSeparator(t, 9, ",")) = call.ret
              /\ parse_timestamp_srt(WithSeparator(t, 9, ".")) = call.ret
    /\ call.op = "parse_vtt_timestamp" =>
         LET t == Strip(call.timestamp) IN
         /\ call.ret \in Nat
         /\ (~FullForm(t) /\ ~ShortForm(t)) => call.ret = 0
         /\ FullForm(t) =>
              /\ parse_timestamp_vtt(WithSeparator(t, 9, ",")) = call.ret
              /\ parse_timestamp_vtt(WithSeparator(t, 9, ".")) = call.ret
         /\ (ShortForm(t) /\ ~FullForm(t)) =>
              /\ parse_timestamp_vtt(WithSeparator(t, 6, ",")) = call.ret
              /\ parse_timestamp_vtt(WithSeparator(t, 6, ".")) = call.ret

\* 01:02:03.004, written with a dot, read by the SRT decoder.
C18_Witness ==
    /\ call.op = "parse_srt_timestamp"
    /\ FullForm(Strip(call.timestamp))
    /\ Strip(call.timestamp)[9] = "."
    /\ call.ret = 3723004

\* C19: the encoders never wrap the hours. The text written for s whole
\* milliseconds is hours:minutes:seconds, a separator and milliseconds, all
\* digits; the hours field has two digits or more and the value
\* floor(s / 3600 s), minutes and seconds have two digits and lie in 00..59,
\* the milliseconds have three digits, and the four fields add up to s.
C19_EncodeFields ==
    call.op \in {"format_timestamp_srt", "format_timestamp_vtt"} =>
        LET sep    == IF call.op = "format_timestamp_srt" THEN "," ELSE "."
            fields == SplitChar(call.ret, ":")
            tail   == SplitChar(fields[Len(fields)], sep)
        IN  /\ Len(fields) = 3
            /\ Len(tail) = 2
            /\ AllDigits(fields[1]) /\ AllDigits(fields[2])
            /\ AllDigits(tail[1]) /\ AllDigits(tail[2])
            /\ Len(fields[1]) >= 2
            /\ DigitsVal(fields[1]) = call.seconds \div 3600000
            /\ Len(fields[2]) = 2 /\ DigitsVal(fields[2]) <= 59
            /\ Len(tail[1]) = 2 /\ DigitsVal(tail[1]) <= 59
            /\ Len(tail[2]) = 3
            /\ DigitsVal(fields[1]) * 3600000 + DigitsVal(fields[2]) * 60000
                   + DigitsVal(tail[1]) * 1000 + DigitsVal(tail[2]) = call.seconds

\* The segments a reader of the format takes from the blocks, in order
RECURSIVE ExpectedSegments(_)
ExpectedSegments(blocks) ==
    IF blocks = <<>> THEN <<>>
    ELSE Head(blocks).segments \o ExpectedSegments(Tail(blocks))

\* C20: parse_srt returns, in document order, one segment for each
\* well-formed block of the document and nothing for any other block; a
\* malformed block changes nothing of what the other blocks give.
C20_DropsOnlyMalformed ==
    call.op = "parse_document" => call.ret = ExpectedSegments(call.blocks)

\* A malformed block between two well-formed ones: both are returned.
C20_Witness ==
    /\ call.op = "parse_document"
    /\ Len(call.blocks) = 3
    /\ call.blocks[1].segments # <<>>
    /\ call.blocks[2].segments = <<>>
    /\ call.blocks[3].segments # <<>>
    /\ Len(call.ret) = 2
    /\ call.ret[2].index = 7

\* The cues a reader of the format takes from the blocks, numbered from
\* n + 1 in the order they are returned
RECURSIVE ExpectedCues(_, _)
ExpectedCues(blocks, n) ==
    IF blocks = <<>> THEN <<>>
    ELSE IF Head(blocks).segments = <<>> THEN ExpectedCues(Tail(blocks), n)
    ELSE <<Head(blocks).segments[1] @@ [index |-> n + 1]>>
             \o ExpectedCues(Tail(blocks), n + 1)

\* C21: parse_vtt numbers the segments it returns 1, 2, ..., N in output
\* order, whatever identifiers the cues carry; in each block the first line
\* holding --> is the timing line, the lines before it are ignored and the
\* lines after it are the text; a block with no such line, or whose timing
\* line does not match, is skipped and consumes no number.
C21_VttNumbering ==
    call.op = "parse_vtt_document" => call.ret = ExpectedCues(call.blocks, 0)

\* A skipped block between two cues, the second with identifier 7: the cues
\* come back numbered 1 and 2.
C21_Witness ==
    /\ call.op = "parse_vtt_document"
    /\ Len(call.blocks) = 3
    /\ call.blocks[1].segments # <<>>
    /\ call.blocks[2].segments = <<>>
    /\ call.blocks[3].text[1] = "7"
    /\ Len(call.ret) = 2
    /\ call.ret[2].index = 2

\* C27: VTT round trip. parse_vtt applied to the text generate_vtt wrote for
\* segments with times below 100 hours and a trimmed text without blank
\* line or --> returns as many segments, the i-th with the start, end and
\* text of the i-th input and with index i.
C27_VttRoundTrip ==
    ( /\ call.op = "parse_vtt"
      /\ \A i \in 1..Len(call.generated) :
           /\ WellFormedInput(call.generated[i])
           /\ call.generated[i].end < 360000000 )
        => /\ Len(call.ret) = Len(call.generated)
           /\ \A i \in 1..Len(call.ret) :
                /\ call.ret[i].start = call.generated[i].start
                /\ call.ret[i].end = call.generated[i].end
                /\ call.ret[i].text = call.generated[i].text
                /\ call.ret[i].index = i

\* C26: the table round trip keeps timing. For every list of segments with
\* whole-millisecond times, dataframe_to_segments(segments_to_dataframe(l))
\* has the length of l and its i-th start and end are those of the i-th
\* segment of l.
C26_TableKeepsTiming ==
    call.op = "table_round_trip"
        => /\ Len(call.ret) = Len(call.segments)
           /\ \A i \in 1..Len(call.ret) :
                /\ call.ret[i].start = call.segments[i].start
                /\ call.ret[i].end = call.segments[i].end

-----------------------------------------------------------------------------
(* Python list and dict helpers over the heap *)

Range(l) == {l[i] : i \in 1..Len(l)}

\* d[k] = v on a dict: adds the key when it is absent
SetKey(d, k, v) == [x \in DOMAIN d \cup {k} |-> IF x = k THEN v ELSE d[x]]

\* The identifier a newly created dict gets: the smallest one not in use.
NewId(h) ==
    CHOOSE n \in 1..(Cardinality(DOMAIN h) + 1) :
        n \notin DOMAIN h /\ \A m \in 1..(n - 1) : m \in DOMAIN h

\* The objects still referenced from roots; the others are garbage.
Collect(h, roots) == [id \in DOMAIN h \cap roots |-> h[id]]

\* The dicts of a list, by value
Values(h, l) == [i \in 1..Len(l) |-> h[l[i]]]

\* A new list of new dicts holding the given values
RECURSIVE AllocAll(_, _)
AllocAll(h, ds) ==
    IF ds = <<>> THEN [heap |-> h, ret |-> <<>>]
    ELSE LET id   == NewId(h)
             rest == AllocAll(h @@ (id :> Head(ds)), Tail(ds))
         IN  [heap |-> rest.heap, ret |-> <<id>> \o rest.ret]

\* list[i] is defined for -len <= i < len
PyIndexOk(n, i) == 0 - n <= i /\ i < n

\* The position (from 1) list[i] reads
PyPos(n, i) == IF i < 0 THEN n + i + 1 ELSE i + 1

\* sorted(indices)
RECURSIVE Insert(_, _)
Insert(x, l) ==
    IF l = <<>> THEN <<x>>
    ELSE IF x < Head(l) THEN <<x>> \o l ELSE <<Head(l)>> \o Insert(x, Tail(l))

\* Variant: the indices are used in the order the caller listed them.
Sorted_Unsorted(l) == l

RECURSIVE Sorted(_)
Sorted(l) == IF l = <<>> THEN <<>> ELSE Insert(Head(l), Sorted(Tail(l)))

\* for i, seg in enumerate(result): seg['index'] = i + 1
\* A dict that sits at several positions keeps the last one.
Renumber(h, result) ==
    [id \in DOMAIN h |->
        IF id \in Range(result)
        THEN SetKey(h[id], "index",
                    CHOOSE i \in 1..Len(result) :
                        result[i] = id /\ \A j \in (i + 1)..Len(result) : result[j] # id)
        ELSE h[id]]

-----------------------------------------------------------------------------
(* Segment editing operations: utils/subtitle.py, lines 274-394 *)
(* Each returns [heap, ret, raised]: the heap after the call, the list it  *)
(* returns, and whether it raised IndexError instead of returning.         *)

Returned(h, l) == [heap |-> h, ret |-> l, raised |-> FALSE]

Raised(h) == [heap |-> h, ret |-> <<>>, raised |-> TRUE]

\* merged_start = segments[indices[0]]['start']
MergedStart(h, segments, indices) ==
    h[segments[PyPos(Len(segments), indices[1])]].start

\* Variant: the end is read from the first selected segment.
MergedEnd_First(h, segments, indices) ==
    h[segments[PyPos(Len(segments), indices[1])]].end

\* merged_end = segments[indices[-1]]['end']
MergedEnd(h, segments, indices) ==
    h[segments[PyPos(Len(segments), indices[Len(indices)])]].end

\* merged_text = ' '.join(segments[i]['text'] for i in indices)
MergedText(h, segments, indices) ==
    Join([j \in 1..Len(indices) |->
              h[segments[PyPos(Len(segments), indices[j])]].text], <<" ">>)

\* Variant: the merged dict is placed at the last selected index.
RECURSIVE MergedList_AtLast(_, _, _, _)
MergedList_AtLast(segments, indices, merged, i) ==
    IF i >= Len(segments) THEN <<>>
    ELSE (IF i = indices[Len(indices)] THEN <<merged>>
          ELSE IF i \notin Range(indices) THEN <<segments[i + 1]>>
          ELSE <<>>)
            \o MergedList_AtLast(segments, indices, merged, i + 1)

\* Variant: the selected segments after the first are not dropped.
RECURSIVE MergedList_KeepSelected(_, _, _, _)
MergedList_KeepSelected(segments, indices, merged, i) ==
    IF i >= Len(segments) THEN <<>>
    ELSE (IF i = indices[1] THEN <<merged>> ELSE <<segments[i + 1]>>)
            \o MergedList_KeepSelected(segments, indices, merged, i + 1)

\* The loop that builds the new list: the merged dict at indices[0], and
\* every segment whose position is not in indices.
RECURSIVE MergedList(_, _, _, _)
MergedList(segments, indices, merged, i) ==
    IF i >= Len(segments) THEN <<>>
    ELSE (IF i = indices[1] THEN <<merged>>
          ELSE IF i \notin Range(indices) THEN <<segments[i + 1]>>
          ELSE <<>>)
            \o MergedList(segments, indices, merged, i + 1)

merge_segments(h, segments, given) ==
    IF Len(given) < 2 THEN Returned(h, segments)
    ELSE LET indices == Sorted(given) IN
         IF \E j \in 1..Len(indices) : ~PyIndexOk(Len(segments), indices[j])
         THEN Raised(h)
         ELSE LET merged == NewId(h)
                  h1     == h @@ (merged :>
                                [start |-> MergedStart(h, segments, indices),
                                 end   |-> MergedEnd(h, segments, indices),
                                 text  |-> MergedText(h, segments, indices)])
                  result == MergedList(segments, indices, merged, 0)
              IN  Returned(Renumber(h1, result), result)

\* The triples <<len(text), split_position - start, end - start>> on which
\* CPython evaluates len(text) * ratio to the whole number exactly:
\* 3 * ((4.0 - 3.5) / (5.0 - 3.5)) is 1.0.
ExactProduct == {<<3, 500, 1500>>}

\* CPython evaluates len(text) * ratio to just below the whole number:
\* 5 * ((2.0 - 1.2) / (2.2 - 1.2)) is 3.999999999999999, the quotient
\* being 0.8 / 1.0000000000000002.
TruncatedProduct == {<<5, 800, 1000>>}

\* The values int(len(text) * ratio) can take, ratio being the binary64
\* quotient (split_position - start) / (end - start): the floor of the exact
\* product, and, when the exact product is a whole number, also one less,
\* since the rounded product may fall just below it (int(100 * 0.29) is 28).
SplitCharOutcomes(n, num, den) ==
    LET k == (n * num) \div den IN
    IF <<n, num, den>> \in TruncatedProduct THEN {k - 1}
    ELSE IF (n * num) % den = 0 /\ k > 0 /\ <<n, num, den>> \notin ExactProduct
    THEN {k - 1, k} ELSE {k}

\* text.rfind(' ', 0, split_char): the offset (from 0) of the last space
\* before offset split_char, or -1.
RFindSpace(text, split_char) ==
    LET hits == {j \in 0..(split_char - 1) : j < Len(text) /\ text[j + 1] = " "} IN
    IF hits = {} THEN 0 - 1 ELSE CHOOSE j \in hits : \A m \in hits : m <= j

\* The offset the text is cut at, from the proportional offset split_char.
CutOffset(text, split_char) ==
    LET space_pos == RFindSpace(text, split_char) IN
    IF space_pos > 0 THEN space_pos ELSE split_char

\* text[:split_char].strip()
SplitText1(text, split_char) == Strip(SubSeq(text, 1, CutOffset(text, split_char)))

\* Variant: the second text starts one character after the cut.
SplitText2_SkipOne(text, split_char) ==
    Strip(SubSeq(text, CutOffset(text, split_char) + 2, Len(text)))

\* text[split_char:].strip()
SplitText2(text, split_char) ==
    Strip(SubSeq(text, CutOffset(text, split_char) + 1, Len(text)))

\* Variant: a split time equal to the end of the target is let through.
SplitRefused_EndAllowed(h, segments, index, split_position) ==
    \/ index < 0
    \/ index >= Len(segments)
    \/ split_position <= h[segments[index + 1]].start
    \/ split_position > h[segments[index + 1]].end

\* split_segment refuses the call and returns its argument.
SplitRefused(h, segments, index, split_position) ==
    \/ index < 0
    \/ index >= Len(segments)
    \/ split_position <= h[segments[index + 1]].start
    \/ split_position >= h[segments[index + 1]].end

\* Variant: the tail is taken from the split segment on (segments[index:]).
SplitList_KeepTarget(segments, index, first, second) ==
    SubSeq(segments, 1, index) \o <<first, second>>
        \o SubSeq(segments, index + 1, Len(segments))

\* result = segments[:index]; the two appends; result.extend(segments[index + 1:])
SplitList(segments, index, first, second) ==
    SubSeq(segments, 1, index) \o <<first, second>>
        \o SubSeq(segments, index + 2, Len(segments))

\* Variant: the two fragments are copies of the target with the new times
\* and texts, so they keep its other keys.
split_segment_CopyTarget(h, segments, index, split_position, split_char) ==
    IF SplitRefused(h, segments, index, split_position) THEN Returned(h, segments)
    ELSE LET seg    == h[segments[index + 1]]
             first  == NewId(h)
             h1     == h @@ (first :>
                          SetKey(SetKey(seg, "end", split_position),
                                 "text", SplitText1(seg.text, split_char)))
             second == NewId(h1)
             h2     == h1 @@ (second :>
                          SetKey(SetKey(seg, "start", split_position),
                                 "text", SplitText2(seg.text, split_char)))
             result == SplitList(segments, index, first, second)
         IN  Returned(Renumber(h2, result), result)

\* split_char is the value int(len(text) * ratio) took.
split_segment(h, segments, index, split_position, split_char) ==
    IF SplitRefused(h, segments, index, split_position) THEN Returned(h, segments)
    ELSE LET seg    == h[segments[index + 1]]
             first  == NewId(h)
             h1     == h @@ (first :> [start |-> seg.start,
                                       end   |-> split_position,
                                       text  |-> SplitText1(seg.text, split_char)])
             second == NewId(h1)
             h2     == h1 @@ (second :> [start |-> split_position,
                                         end   |-> seg.end,
                                         text  |-> SplitText2(seg.text, split_char)])
             result == SplitList(segments, index, first, second)
         IN  Returned(Renumber(h2, result), result)

\* 0.1 s, the shortest duration adjust_timing leaves
MinDuration == 100

Max(a, b) == IF a >= b THEN a ELSE b

\* new_start = max(0, seg['start'] + start_delta)
AdjustedStart(seg, start_delta) == Max(0, seg.start + start_delta)

\* Variant: the end is floored at 0.1 s instead of new_start + 0.1 s.
AdjustedEnd_FloorOnly(seg, start_delta, end_delta) ==
    Max(MinDuration, seg.end + end_delta)

\* new_end = max(new_start + 0.1, seg['end'] + end_delta)
AdjustedEnd(seg, start_delta, end_delta) ==
    Max(AdjustedStart(seg, start_delta) + MinDuration, seg.end + end_delta)

adjust_timing(h, segments, index, start_delta, end_delta) ==
    IF index < 0 \/ index >= Len(segments) THEN Returned(h, segments)
    ELSE LET copy == AllocAll(h, Values(h, segments))
             id   == copy.ret[index + 1]
             seg  == copy.heap[id]
             h1   == [copy.heap EXCEPT
                         ![id] = SetKey(SetKey(seg, "start", AdjustedStart(seg, start_delta)),
                                        "end", AdjustedEnd(seg, start_delta, end_delta))]
         IN  Returned(h1, copy.ret)

-----------------------------------------------------------------------------
(* Inputs of the editing operations *)

\* "1\n00:00:01,000 --> 00:00:03,500\nHello world\n\n
\*  2\n00:00:03,500 --> 00:00:05,000\nBye\n\n"
HelloDoc ==
    <<"1", "\n", "0", "0", ":", "0", "0", ":", "0", "1", ",", "0", "0",
    "0", " ", "-", "-", ">", " ", "0", "0", ":", "0", "0", ":", "0", "3",
    ",", "5", "0", "0", "\n", "H", "e", "l", "l", "o", " ", "w", "o", "r",
    "l", "d", "\n", "\n", "2", "\n", "0", "0", ":", "0", "0", ":", "0",
    "3", ",", "5", "0", "0", " ", "-", "-", ">", " ", "0", "0", ":", "0",
    "0", ":", "0", "5", ",", "0", "0", "0", "\n", "B", "y", "e", "\n",
    "\n">>

QuickBrownFox ==
    <<"T", "h", "e", " ", "q", "u", "i", "c", "k", " ", "b", "r", "o", "w", "n", " ", "f", "o", "x">>

\* Segment dicts as the collaborators hand them over: a transcription span
\* (no index), a translated span with its original, a parsed block with a
\* source index. Their order in a list is not constrained, so lists may be
\* out of temporal order or overlap, as parse_srt passes them through.
EditSamples ==
    { [start |-> 0, end |-> 10000, text |-> QuickBrownFox],
      [start |-> 50, end |-> 100, text |-> <<"a", " ", "b">>, original |-> <<"x">>],
      [index |-> 7, start |-> 3500, end |-> 5000, text |-> Bye] }

\* Three captions in temporal order, none overlapping the next.
ThreeCaptions ==
    << [start |-> 50, end |-> 100, text |-> <<"a", " ", "b">>],
       [start |-> 1000, end |-> 3500, text |-> HelloWorld],
       [start |-> 3500, end |-> 5000, text |-> Bye] >>

\* One caption of three words from 1.2 s to 2.2 s
ThreeWords ==
    << [start |-> 1200, end |-> 2200, text |-> <<"a", " ", "b", " ", "c">>] >>

EditInputs ==
    ListsUpTo(EditSamples, MaxLen) \cup {parse_srt(HelloDoc), ThreeCaptions, ThreeWords}

\* The index arguments tried on a list of n segments: every position, one
\* below 0 and one past the end.
IndexRange(n) == (0 - 1)..n

SplitTimes == {0, 75, 2000, 3500, 4000, 5000, 10000}

Deltas == {0 - 5000, 0 - 100, 0, 50, 1000}

-----------------------------------------------------------------------------
(* SpecEdit: one editing operation applied to a list the caller holds *)

InitEdit ==
    \E l \in EditInputs :
        /\ heap = AllocAll(<<>>, l).heap
        /\ segs = AllocAll(<<>>, l).ret
        /\ session = NoSession
        /\ call = NoCall

\* The caller replaces the list it holds by the one returned.
Outcome(r) ==
    /\ heap' = r.heap
    /\ segs' = IF r.raised THEN segs ELSE r.ret
    /\ UNCHANGED session

Merge ==
    /\ call = NoCall
    /\ \E given \in ListsUpTo(IndexRange(Len(segs)), Len(segs)) :
        LET r == merge_segments(heap, segs, given) IN
        /\ call' = [op |-> "merge_segments", segments |-> segs, before |-> heap,
                    indices |-> given, ret |-> r.ret, raised |-> r.raised]
        /\ Outcome(r)

Split ==
    /\ call = NoCall
    /\ \E index \in IndexRange(Len(segs)), split_position \in SplitTimes :
        \E split_char \in
            IF SplitRefused(heap, segs, index, split_position) THEN {0}
            ELSE LET seg == heap[segs[index + 1]]
                 IN  SplitCharOutcomes(Len(seg.text), split_position - seg.start,
                                       seg.end - seg.start) :
            LET r == split_segment(heap, segs, index, split_position, split_char) IN
            /\ call' = [op |-> "split_segment", segments |-> segs, before |-> heap,
                        index |-> index, split_position |-> split_position,
                        split_char |-> split_char,
                        ret |-> r.ret, raised |-> r.raised]
            /\ Outcome(r)

Adjust ==
    /\ call = NoCall
    /\ \E index \in IndexRange(Len(segs)), start_delta \in Deltas, end_delta \in Deltas :
        LET r == adjust_timing(heap, segs, index, start_delta, end_delta) IN
        /\ call' = [op |-> "adjust_timing", segments |-> segs, before |-> heap,
                    index |-> index, start_delta |-> start_delta,
                    end_delta |-> end_delta, ret |-> r.ret, raised |-> r.raised]
        /\ Outcome(r)

NextEdit ==
    \/ Merge
    \/ Split
    \/ Adjust

SpecEdit == InitEdit /\ [][NextEdit]_vars

-----------------------------------------------------------------------------
(* Properties of the editing operations, stated on the last call *)

SameSpan(a, b) == a.start = b.start /\ a.end = b.end /\ a.text = b.text

\* The dict the call was given at offset i (from 0), as it was before the call
Given(i) == call.before[call.segments[i + 1]]

\* The dict the call returned at offset i (from 0), as it is after the call
Got(i) == heap[call.ret[i + 1]]

MinOf(S) == CHOOSE m \in S : \A x \in S : m <= x

MaxOf(S) == CHOOSE m \in S : \A x \in S : x <= m

\* l without the elements at the offsets (from 0) in drop
RECURSIVE DropOffsets(_, _, _)
DropOffsets(l, drop, i) ==
    IF i >= Len(l) THEN <<>>
    ELSE (IF i \in drop THEN <<>> ELSE <<l[i + 1]>>) \o DropOffsets(l, drop, i + 1)

\* The given texts at the offsets of S, in ascending order of offset
RECURSIVE AscendingTexts(_)
AscendingTexts(S) ==
    IF S = {} THEN <<>>
    ELSE <<Given(MinOf(S)).text>> \o AscendingTexts(S \ {MinOf(S)})

\* merge_segments was called with at least two distinct in-range indices.
MergeOfDistinct ==
    /\ call.op = "merge_segments"
    /\ Len(call.indices) >= 2
    /\ Cardinality(Range(call.indices)) = Len(call.indices)
    /\ Range(call.indices) \subseteq 0..(Len(call.segments) - 1)

\* split_segment was called with an in-range index and a time inside the
\* target segment.
SplitInside ==
    /\ call.op = "split_segment"
    /\ call.index \in 0..(Len(call.segments) - 1)
    /\ Given(call.index).start < call.split_position
    /\ call.split_position < Given(call.index).end

ScenarioSegments ==
    << [index |-> 1, start |-> 1000, end |-> 3500, text |-> HelloWorld],
       [index |-> 2, start |-> 3500, end |-> 5000, text |-> Bye] >>

\* C3: merging two adjacent segments i and i+1 returns a list one shorter
\* whose element at position i starts where segment i started, ends where
\* segment i+1 ended and holds the two texts joined by one space; the
\* two-block document "Hello world" / "Bye" parses to two segments whose
\* merge on {0, 1} is the single segment 1.0-5.0 "Hello world Bye".
C3_MergeAdjacent ==
    /\ parse_srt(HelloDoc) = ScenarioSegments
    /\ call.op = "merge_segments" =>
         /\ \A i \in 0..(Len(call.segments) - 2) :
              call.indices = <<i, i + 1>> =>
                /\ ~call.raised
                /\ Len(call.ret) = Len(call.segments) - 1
                /\ Got(i).start = Given(i).start
                /\ Got(i).end = Given(i + 1).end
                /\ Got(i).text = Given(i).text \o <<" ">> \o Given(i + 1).text
         /\ ( /\ Values(call.before, call.segments) = ScenarioSegments
              /\ Range(call.indices) = {0, 1}
              /\ Len(call.indices) = 2 ) =>
                /\ Len(call.ret) = 1
                /\ Got(0).start = 1000
                /\ Got(0).end = 5000
                /\ Got(0).text = HelloWorld \o <<" ">> \o Bye

C3_Witness ==
    /\ call.op = "merge_segments"
    /\ call.indices = <<0, 1>>
    /\ Values(call.before, call.segments) = ScenarioSegments
    /\ Len(call.ret) = 1
    /\ Got(0).text = HelloWorld \o <<" ">> \o Bye

\* C4, as claimed: the merged segment starts at the smallest start and ends
\* at the largest end among the selected segments, its text being their
\* texts joined by a space in ascending-index order.
C4_MergedSmallestStartLargestEnd ==
    MergeOfDistinct =>
        LET S == Range(call.indices) IN
        \E i \in 0..(Len(call.ret) - 1) :
            /\ call.ret[i + 1] \notin DOMAIN call.before
            /\ Got(i).start = MinOf({Given(j).start : j \in S})
            /\ Got(i).end = MaxOf({Given(j).end : j \in S})
            /\ Got(i).text = Join(AscendingTexts(S), <<" ">>)

\* C4, amended: for at least two distinct in-range indices, listed in any
\* order, the merged segment starts where the selected segment of smallest
\* index starts and ends where the selected segment of largest index ends,
\* and its text is the selected texts joined by one space in ascending-index
\* order; the result depends on the set of indices only, not on their order.
C4_MergedFirstStartLastEnd ==
    MergeOfDistinct =>
        LET S == Range(call.indices) IN
        /\ ~call.raised
        /\ \E i \in 0..(Len(call.ret) - 1) :
            /\ call.ret[i + 1] \notin DOMAIN call.before
            /\ Got(i).start = Given(MinOf(S)).start
            /\ Got(i).end = Given(MaxOf(S)).end
            /\ Got(i).text = Join(AscendingTexts(S), <<" ">>)

\* Indices listed in descending order, on segments out of temporal order.
C4_Witness ==
    /\ MergeOfDistinct
    /\ call.indices[1] > call.indices[2]
    /\ Given(MinOf(Range(call.indices))).start > Given(MaxOf(Range(call.indices))).start
    /\ ~call.raised

\* C5: for k >= 2 distinct in-range indices, adjacent or not, the result has
\* len - k + 1 elements, the merged segment sits at the position of the
\* smallest selected index, and the other elements are the non-selected
\* segments, each once, in their order, with start, end and text unchanged.
C5_MergePlacement ==
    MergeOfDistinct =>
        LET S  == Range(call.indices)
            lo == MinOf(S)
        IN  /\ ~call.raised
            /\ Len(call.ret) = Len(call.segments) - Cardinality(S) + 1
            /\ call.ret[lo + 1] \notin DOMAIN call.before
            /\ DropOffsets(call.ret, {lo}, 0) = DropOffsets(call.segments, S, 0)
            /\ \A i \in 0..(Len(call.ret) - 1) :
                 i # lo => SameSpan(Got(i), call.before[call.ret[i + 1]])

\* Two non-adjacent segments merged, a third one left between them.
C5_Witness ==
    /\ MergeOfDistinct
    /\ Range(call.indices) = {0, 2}
    /\ Len(call.segments) = 3
    /\ Len(call.ret) = 2
    /\ call.ret[2] = call.segments[2]

\* C6: a split of segment i at a time t inside it returns a list one longer,
\* whose elements i and i+1 span (start, t) and (t, end), the elements before
\* i and after i+1 being the original segments in their order.
C6_SplitPartition ==
    SplitInside =>
        LET i == call.index
            n == Len(call.segments)
        IN  /\ ~call.raised
            /\ Len(call.ret) = n + 1
            /\ Got(i).start = Given(i).start
            /\ Got(i).end = call.split_position
            /\ Got(i + 1).start = call.split_position
            /\ Got(i + 1).end = Given(i).end
            /\ SubSeq(call.ret, 1, i) = SubSeq(call.segments, 1, i)
            /\ SubSeq(call.ret, i + 3, n + 1) = SubSeq(call.segments, i + 2, n)
            /\ \A j \in (0..(n - 1)) \ {i} : SameSpan(heap[call.segments[j + 1]], Given(j))

\* A middle segment split, with a segment on either side.
C6_Witness ==
    /\ SplitInside
    /\ call.index = 1
    /\ Len(call.segments) = 3
    /\ Len(call.ret) = 4

\* C7: splitting the single segment 0-10 "The quick brown fox" at 5.0 gives
\* two segments spanning 0-5 and 5-10 with texts "The quick" and "brown fox".
C7_QuickBrownFox ==
    ( /\ call.op = "split_segment"
      /\ Len(call.segments) = 1
      /\ SameSpan(Given(0), [start |-> 0, end |-> 10000, text |-> QuickBrownFox])
      /\ call.index = 0
      /\ call.split_position = 5000 )
        => /\ Len(call.ret) = 2
           /\ SameSpan(Got(0), [start |-> 0, end |-> 5000,
                                text |-> SubSeq(QuickBrownFox, 1, 9)])
           /\ SameSpan(Got(1), [start |-> 5000, end |-> 10000,
                                text |-> SubSeq(QuickBrownFox, 11, 19)])

\* C8: adjust_timing on an in-range index, whatever the deltas, returns a
\* list whose target has start = max(0, start + start_delta) and
\* end = max(new start + 0.1, end + end_delta), so start >= 0 and
\* end - start >= 0.1; every other segment keeps its start, end and text.
C8_AdjustClamps ==
    ( /\ call.op = "adjust_timing"
      /\ call.index \in 0..(Len(call.segments) - 1) )
        => LET i == call.index IN
           /\ ~call.raised
           /\ Len(call.ret) = Len(call.segments)
           /\ Got(i).start = Max(0, Given(i).start + call.start_delta)
           /\ Got(i).end = Max(Got(i).start + 100, Given(i).end + call.end_delta)
           /\ Got(i).start >= 0
           /\ Got(i).end - Got(i).start >= 100
           /\ Got(i).text = Given(i).text
           /\ \A j \in (0..(Len(call.segments) - 1)) \ {i} : SameSpan(Got(j), Given(j))

\* Deltas that pull the start below zero and the end below the new start.
C8_Witness ==
    /\ call.op = "adjust_timing"
    /\ call.index \in 0..(Len(call.segments) - 1)
    /\ Given(call.index).start + call.start_delta < 0
    /\ Given(call.index).end + call.end_delta < 0
    /\ Got(call.index).start = 0
    /\ Got(call.index).end = 100
    /\ Len(call.segments) >= 2

\* One of the three editing operations was called.
EditCall == call.op \in {"merge_segments", "split_segment", "adjust_timing"}

\* The dicts of the list the call was given, as they are after the call,
\* are what they were before it: same keys, same values.
InputUnmodified ==
    \A i \in 1..Len(call.segments) :
        heap[call.segments[i]] = call.before[call.segments[i]]

\* C11: purity. After any call of merge_segments, split_segment or
\* adjust_timing, every segment record of the caller's input list holds the
\* same fields (start, end, text, original, index) with the same values as
\* before the call.
C11_InputUnmodified == EditCall => InputUnmodified

\* The call changed something: a merge of two indices or more, a split
\* inside the target, an adjustment of an in-range index; and it returned.
Applied ==
    /\ EditCall
    /\ ~call.raised
    /\ call.op = "merge_segments" => Len(call.indices) >= 2
    /\ call.op = "split_segment" => SplitInside
    /\ call.op = "adjust_timing" => call.index \in 0..(Len(call.segments) - 1)

\* C12: renumbering. The list returned by an applied merge_segments,
\* split_segment or adjust_timing has index fields 1, 2, ..., N in sequence
\* order, whatever index fields the input carried.
C12_Renumbered ==
    Applied =>
        \A i \in 1..Len(call.ret) :
            /\ "index" \in DOMAIN heap[call.ret[i]]
            /\ heap[call.ret[i]].index = i

\* C13: positive duration. Every segment of the list the caller holds has
\* end > start, initially and after every editing call.
C13_PositiveDuration ==
    \A i \in 1..Len(segs) : heap[segs[i]].end > heap[segs[i]].start

\* Each segment of l ends no later than the next one starts.
Ordered(h, l) == \A i \in 1..(Len(l) - 1) : h[l[i]].end <= h[l[i + 1]].start

\* The indices given are a run i, i+1, ..., j of consecutive positions.
Consecutive(S) == S = MinOf(S)..MaxOf(S)

\* C14, as claimed: on a temporally ordered, non-overlapping input, the
\* result of merge_segments with any set of at least two distinct in-range
\* indices, and of split_segment with a time inside the target, is
\* temporally ordered and non-overlapping.
C14_OrderPreserved ==
    ( /\ (MergeOfDistinct \/ SplitInside)
      /\ Ordered(call.before, call.segments) )
        => /\ ~call.raised
           /\ Ordered(heap, call.ret)

\* C14, amended: the same, for a merge of at least two distinct in-range
\* indices that are consecutive positions (the selection the function's
\* documentation requires), and for a split at a time inside the target.
C14_OrderPreservedConsecutive ==
    ( /\ \/ MergeOfDistinct /\ Consecutive(Range(call.indices))
         \/ SplitInside
      /\ Ordered(call.before, call.segments) )
        => /\ ~call.raised
           /\ Ordered(heap, call.ret)

\* The first two of three ordered captions merged, the third kept after them.
C14_Witness ==
    /\ MergeOfDistinct
    /\ Values(call.before, call.segments) = ThreeCaptions
    /\ Range(call.indices) = {0, 1}
    /\ Len(call.ret) = 2
    /\ Got(0).end <= Got(1).start

\* The call is one the operations refuse: a merge of fewer than two
\* indices, a split with an index out of range or a time not inside the
\* target, an adjustment with an index out of range.
InvalidParameters ==
    \/ /\ call.op = "merge_segments"
       /\ Len(call.indices) < 2
    \/ /\ call.op = "split_segment"
       /\ \/ call.index \notin 0..(Len(call.segments) - 1)
          \/ call.split_position <= Given(call.index).start
          \/ call.split_position >= Given(call.index).end
    \/ /\ call.op = "adjust_timing"
       /\ call.index \notin 0..(Len(call.segments) - 1)

\* The call returned its argument and left every segment as it was.
NoOp ==
    /\ ~call.raised
    /\ call.ret = call.segments
    /\ InputUnmodified

\* C15: merge_segments with an empty or single-element index list,
\* split_segment with an index out of range or a time at or before the
\* target's start or at or after its end, and adjust_timing with an index
\* out of range return the input list, every segment unchanged, and raise
\* nothing.
C15_InvalidIsNoOp == InvalidParameters => NoOp

\* A split asked exactly at the end of the second of several segments.
C15_Witness ==
    /\ call.op = "split_segment"
    /\ call.index = 1
    /\ Len(call.segments) >= 2
    /\ call.split_position = Given(1).end
    /\ call.ret = call.segments

\* C16: merge_segments with two indices or more, one of them out of range
\* (negative or past the end), raises nothing and returns the input list
\* unmodified, no segment dropped.
C16_MergeOutOfRangeIsNoOp ==
    ( /\ call.op = "merge_segments"
      /\ Len(call.indices) >= 2
      /\ \E j \in 1..Len(call.indices) :
             call.indices[j] \notin 0..(Len(call.segments) - 1) )
        => NoOp

\* C17: a split at a time inside a segment whose trimmed text is not empty
\* gives two fragments whose texts are not empty.
C17_SplitTextsNotEmpty ==
    (SplitInside /\ Strip(Given(call.index).text) # <<>>)
        => /\ Got(call.index).text # <<>>
           /\ Got(call.index + 1).text # <<>>

\* The offsets j in 1..p-1 at which text holds a space
SpacesBefore(text, p) == {j \in 1..(p - 1) : j < Len(text) /\ text[j + 1] = " "}

\* C23: the split lands on a word boundary. With
\* p = floor(len(text) * (t - start) / (end - start)), whenever text holds a
\* space at some offset in 1..p-1 the cut is made at the nearest such space
\* before p: the first fragment is the text up to that space and the second
\* the text after it, both trimmed.
C23_SplitAtNearestSpace ==
    SplitInside =>
        LET seg  == Given(call.index)
            text == seg.text
            p    == (Len(text) * (call.split_position - seg.start))
                        \div (seg.end - seg.start)
        IN  SpacesBefore(text, p) # {} =>
                LET q == MaxOf(SpacesBefore(text, p)) IN
                /\ Got(call.index).text = Strip(SubSeq(text, 1, q))
                /\ Got(call.index + 1).text = Strip(SubSeq(text, q + 1, Len(text)))

\* a and b have the same start, end and text, and the same original or none.
SameProvenance(a, b) ==
    /\ SameSpan(a, b)
    /\ ("original" \in DOMAIN a) = ("original" \in DOMAIN b)
    /\ "original" \in DOMAIN a => a.original = b.original

\* C24: provenance across a split. After an applied split_segment neither
\* of the two fragments carries an original field, and every other segment
\* of the result has the start, end, text and original it had in the input.
C24_SplitProvenance ==
    (SplitInside /\ ~call.raised) =>
        LET i == call.index
            n == Len(call.segments)
        IN  /\ "original" \notin DOMAIN Got(i)
            /\ "original" \notin DOMAIN Got(i + 1)
            /\ \A j \in 0..(i - 1) : SameProvenance(Got(j), Given(j))
            /\ \A j \in (i + 1)..(n - 1) : SameProvenance(Got(j + 1), Given(j))

\* A translated segment (with original) split between two others, one of
\* which carries an original and keeps it.
C24_Witness ==
    /\ SplitInside
    /\ ~call.raised
    /\ Len(call.segments) = 3
    /\ call.index = 1
    /\ "original" \in DOMAIN Given(1)
    /\ "original" \in DOMAIN Given(2)
    /\ "original" \in DOMAIN Got(3)
    /\ "original" \notin DOMAIN Given(0)

\* The characters of s that are not whitespace, in order
NonWhitespace(s) == SelectSeq(s, LAMBDA c : c \notin Whitespace)

\* s is trimmed and no two whitespace characters follow each other.
SingleSpaced(s) ==
    /\ Strip(s) = s
    /\ \A j \in 1..(Len(s) - 1) : ~(s[j] \in Whitespace /\ s[j + 1] \in Whitespace)

\* C28: a split conserves characters. For every applied split_segment the
\* first text followed by the second holds exactly the non-whitespace
\* characters of the original text, in order; and when the cut falls on a
\* space of a trimmed, single-spaced text, first text + " " + second text is
\* the original text.
C28_SplitConservesCharacters ==
    (SplitInside /\ ~call.raised) =>
        LET text == Given(call.index).text
            cut  == CutOffset(text, call.split_char)
            t1   == Got(call.index).text
            t2   == Got(call.index + 1).text
        IN  /\ NonWhitespace(t1 \o t2) = NonWhitespace(text)
            /\ (SingleSpaced(text) /\ cut < Len(text) /\ text[cut + 1] = " ")
                   => t1 \o <<" ">> \o t2 = text

\* A cut on the space after the first word of a four-word text: the two
\* texts joined by a space are the original.
C28_Witness ==
    /\ SplitInside
    /\ ~call.raised
    /\ Given(call.index).text = QuickBrownFox
    /\ CutOffset(QuickBrownFox, call.split_char) = 3
    /\ Got(call.index).text = SubSeq(QuickBrownFox, 1, 3)
    /\ Got(call.index + 1).text = SubSeq(QuickBrownFox, 5, 19)

-----------------------------------------------------------------------------
(* The subtitle editor page (pages/2, the subtitle editor), one action per click *)

\* Clicks followed in one session of the page.
MaxClicks == 3

\* What the processing page left in the workspace: a transcription (spans
\* without index) and its translation (with original), or nothing yet.
Transcribed ==
    << [start |-> 0, end |-> 10000, text |-> QuickBrownFox],
       [start |-> 50, end |-> 100, text |-> <<"a", " ", "b">>] >>

Translated ==
    << [start |-> 3500, end |-> 5000, text |-> Bye, original |-> <<"x">>],
       [start |-> 50, end |-> 100, text |-> <<"a", " ", "b">>, original |-> <<"y">>] >>

\* The files a user uploads: the two-block document, and a file the
\* generator wrote with a caption of 50 ms.
UploadDocs ==
    { HelloDoc,
      generate_srt(<< [start |-> 50, end |-> 100, text |-> <<"a", " ", "b">>],
                      [start |-> 3500, end |-> 5000, text |-> Bye] >>) }

\* The uploaded files by name: the .srt documents, and a .vtt file the
\* generator wrote.
UploadFiles ==
    {[name |-> "upload.srt", content |-> c] : c \in UploadDocs}
        \cup {[name    |-> "upload.vtt",
                content |-> generate_vtt(
                    << [start |-> 50, end |-> 100, text |-> <<"a", " ", "b">>],
                       [start |-> 3500, end |-> 5000, text |-> Bye] >>)]}

\* uploaded_file.name.endswith('.vtt')
EndsWithVtt(name) == name = "upload.vtt"

\* Values of the time offset input, in ms
ShiftDeltas == {0 - 1000, 0, 100, 1000}

\* Positions of the split slider, in tenths
SplitRatios == {3, 5}

\* The objects the session still references
SessionRoots(ss) ==
    UNION {Range(x[1]) : x \in {y \in {ss.editor_segments, ss.segments,
                                        ss.translated_segments} : y # None}}

InitEditor ==
    \E rec \in {None, Some(Transcribed)}, tr \in {None, Some(Translated)} :
        LET a == IF rec = None THEN [heap |-> <<>>, ret |-> <<>>]
                 ELSE AllocAll(<<>>, rec[1])
            b == IF tr = None THEN [heap |-> a.heap, ret |-> <<>>]
                 ELSE AllocAll(a.heap, tr[1])
        IN  /\ heap = b.heap
            /\ session = [NoSession EXCEPT
                              !.segments = IF rec = None THEN None ELSE Some(a.ret),
                              !.translated_segments =
                                  IF tr = None THEN None ELSE Some(b.ret)]
            /\ segs = <<>>
            /\ call = [op |-> "none", n |-> 0]

\* The record of a click: what was clicked, the heap and session it found,
\* and the click before it.
Click(name, args) ==
    [op |-> name, n |-> call.n + 1, args |-> args,
     before |-> heap, session |-> session,
     prev |-> [k \in DOMAIN call \ {"prev"} |-> call[k]]]

\* The values of editor_source the load buttons set (the page's labels for
\* the source-language subtitles and the translated subtitles); an uploaded
\* file gives its name, which ends in .srt or .vtt.
SourceRecognised == "source-language subtitles"

SourceTranslated == "translated subtitles"

EditorShown == Truthy(session.editor_segments)

\* [dict(seg) for seg in st.session_state.<key>] into editor_segments
LoadCopy(key, source) ==
    IF Truthy(session[key])
    THEN LET h0   == Collect(heap, SessionRoots(session))
             copy == AllocAll(h0, Values(h0, session[key][1]))
         IN  /\ heap' = copy.heap
             /\ session' = [session EXCEPT !.editor_segments = Some(copy.ret),
                                           !.editor_source = source]
    ELSE UNCHANGED <<heap, session>>

LoadRecognised ==
    /\ call.n < MaxClicks
    /\ LoadCopy("segments", SourceRecognised)
    /\ call' = Click("load_recognised", <<>>)
    /\ UNCHANGED segs

LoadTranslated ==
    /\ call.n < MaxClicks
    /\ LoadCopy("translated_segments", SourceTranslated)
    /\ call' = Click("load_translated", <<>>)
    /\ UNCHANGED segs

\* An uploaded file is parsed into editor_segments, as VTT when its name
\* ends in .vtt and as SRT otherwise.
Upload ==
    /\ call.n < MaxClicks
    /\ \E uploaded_file \in UploadFiles :
        LET h0       == Collect(heap, SessionRoots(session))
            segments == IF EndsWithVtt(uploaded_file.name)
                        THEN parse_vtt(uploaded_file.content)
                        ELSE parse_srt(uploaded_file.content)
            parsed   == AllocAll(h0, segments)
        IN  /\ heap' = parsed.heap
            /\ session' = [session EXCEPT !.editor_segments = Some(parsed.ret),
                                          !.editor_source = uploaded_file.name]
            /\ call' = Click("upload", <<uploaded_file.content>>)
    /\ UNCHANGED segs

\* seg['start'] = max(0, seg['start'] + time_adjust)
ShiftedStart(seg, time_adjust) == Max(0, seg.start + time_adjust)

\* Variant: the end is computed from the start.
ShiftedEnd_FromStart(seg, time_adjust) == Max(MinDuration, seg.start + time_adjust)

\* seg['end'] = max(0.1, seg['end'] + time_adjust)
ShiftedEnd(seg, time_adjust) == Max(MinDuration, seg.end + time_adjust)

\* The global shift button: every dict of the edited list is changed in place.
GlobalShift ==
    /\ call.n < MaxClicks
    /\ EditorShown
    /\ \E time_adjust \in ShiftDeltas :
        /\ heap' = IF time_adjust = 0 THEN heap
                   ELSE [id \in DOMAIN heap |->
                            IF id \in Range(session.editor_segments[1])
                            THEN SetKey(SetKey(heap[id], "start",
                                               ShiftedStart(heap[id], time_adjust)),
                                        "end", ShiftedEnd(heap[id], time_adjust))
                            ELSE heap[id]]
        /\ call' = Click("global_shift", <<time_adjust>>)
    /\ UNCHANGED <<session, segs>>

\* The merge button
MergeClick ==
    /\ call.n < MaxClicks
    /\ EditorShown
    /\ \E merge_start \in 1..Len(session.editor_segments[1]),
          merge_end \in 1..Len(session.editor_segments[1]) :
        /\ IF merge_start < merge_end
           THEN LET h0 == Collect(heap, SessionRoots(session))
                    r  == merge_segments(h0, session.editor_segments[1],
                              [i \in 1..(merge_end - merge_start + 1) |->
                                  merge_start - 2 + i])
                IN  /\ heap' = r.heap
                    /\ session' = [session EXCEPT !.editor_segments = Some(r.ret)]
           ELSE UNCHANGED <<heap, session>>
        /\ call' = Click("merge", <<merge_start, merge_end>>)
    /\ UNCHANGED segs

\* The split button; the split time is start + (end - start) * ratio. Only
\* slider positions that give a whole number of milliseconds are followed.
SplitClick ==
    /\ call.n < MaxClicks
    /\ EditorShown
    /\ \E split_index \in 1..Len(session.editor_segments[1]), tenths \in SplitRatios :
        LET h0         == Collect(heap, SessionRoots(session))
            seg        == h0[session.editor_segments[1][split_index]]
            split_time == seg.start + ((seg.end - seg.start) * tenths) \div 10
        IN  /\ ((seg.end - seg.start) * tenths) % 10 = 0
            /\ \E split_char \in
                  IF SplitRefused(h0, session.editor_segments[1], split_index - 1, split_time)
                  THEN {0}
                  ELSE SplitCharOutcomes(Len(seg.text), split_time - seg.start,
                                         seg.end - seg.start) :
                  LET r == split_segment(h0, session.editor_segments[1],
                                         split_index - 1, split_time, split_char)
                  IN  /\ heap' = r.heap
                      /\ session' = [session EXCEPT !.editor_segments = Some(r.ret)]
            /\ call' = Click("split", <<split_index, tenths>>)
    /\ UNCHANGED segs

\* The text a user types into a cell of the table
TableTexts == {Bye}

\* An edit of one row's text in the table: when the edited table differs
\* from the one shown, editor_segments is rebuilt from it.
TableEdit ==
    /\ call.n < MaxClicks
    /\ EditorShown
    /\ \E row \in 1..Len(session.editor_segments[1]), text \in TableTexts :
        LET h0        == Collect(heap, SessionRoots(session))
            df        == segments_to_dataframe(Values(h0, session.editor_segments[1]))
            edited_df == [df EXCEPT ![row].text = text]
        IN  /\ IF edited_df # df
               THEN LET rebuilt == AllocAll(h0, dataframe_to_segments(edited_df))
                    IN  /\ heap' = rebuilt.heap
                        /\ session' = [session EXCEPT
                                           !.editor_segments = Some(rebuilt.ret)]
               ELSE UNCHANGED <<heap, session>>
            /\ call' = Click("table_edit", <<row, text>>)
    /\ UNCHANGED segs

\* Variant: the edited list is always saved as the recognised segments.
Save_AlwaysSegments ==
    /\ call.n < MaxClicks
    /\ EditorShown
    /\ session' = [session EXCEPT !.segments = session.editor_segments]
    /\ call' = Click("save", <<>>)
    /\ UNCHANGED <<heap, segs>>

\* The save-to-workspace button: the workspace key is bound to the edited list itself.
Save ==
    /\ call.n < MaxClicks
    /\ EditorShown
    /\ session' = IF session.editor_source = SourceTranslated
                  THEN [session EXCEPT !.translated_segments = session.editor_segments]
                  ELSE [session EXCEPT !.segments = session.editor_segments]
    /\ call' = Click("save", <<>>)
    /\ UNCHANGED <<heap, segs>>

NextEditor ==
    \/ LoadRecognised
    \/ LoadTranslated
    \/ Upload
    \/ GlobalShift
    \/ MergeClick
    \/ SplitClick
    \/ TableEdit
    \/ Save

SpecEditor == InitEditor /\ [][NextEditor]_vars

-----------------------------------------------------------------------------
(* Properties of the editor's global shift *)

EditedIds == Range(session.editor_segments[1])

ShiftApplied == call.op = "global_shift" /\ call.args[1] # 0

\* C9: a global shift by d # 0 replaces every start by max(0, start + d) and
\* every end by a value floored at new start + 0.1, so that afterwards every
\* segment has start >= 0 and end >= start + 0.1.
C9_GlobalShiftClamps ==
    ShiftApplied =>
        \A id \in EditedIds :
            /\ heap[id].start = Max(0, call.before[id].start + call.args[1])
            /\ heap[id].end = Max(heap[id].start + 100,
                                  call.before[id].end + call.args[1])
            /\ heap[id].start >= 0
            /\ heap[id].end >= heap[id].start + 100

\* Shifting seg by d triggers neither the floor at zero nor the floor of the
\* end at new start + 0.1.
Unclamped(seg, d) ==
    /\ seg.start + d >= 0
    /\ seg.end + d >= seg.start + d + MinDuration

\* A shift by d # 0 directly followed by a shift by -d
ShiftedBack ==
    /\ ShiftApplied
    /\ call.prev.op = "global_shift"
    /\ call.args[1] = 0 - call.prev.args[1]

\* C10: a shift of the whole sequence by d and then by -d returns the start
\* and end of every segment on which the first shift triggered no clamp; a
\* segment starting at 0.05 shifted by -1 has start 0. The same holds of the
\* two shifts made with adjust_timing (both deltas d, then both -d).
C10_ShiftInverse ==
    /\ ShiftedBack =>
         \A id \in EditedIds :
             Unclamped(call.prev.before[id], call.prev.args[1]) =>
                 /\ heap[id].start = call.prev.before[id].start
                 /\ heap[id].end = call.prev.before[id].end
    /\ ShiftApplied =>
         \A id \in EditedIds :
             (call.before[id].start = 50 /\ call.args[1] = 0 - 1000)
                 => heap[id].start = 0
    /\ EditorShown =>
         \A id \in EditedIds, d \in ShiftDeltas :
             Unclamped(heap[id], d) =>
                 LET there == [start |-> AdjustedStart(heap[id], d),
                               end   |-> AdjustedEnd(heap[id], d, d)]
                 IN  /\ AdjustedStart(there, 0 - d) = heap[id].start
                     /\ AdjustedEnd(there, 0 - d, 0 - d) = heap[id].end

\* A shift by -1 s and back: one segment comes back unclamped, and one that
\* started at 0.05 was floored at zero by the first shift.
C10_Witness ==
    /\ ShiftedBack
    /\ call.prev.args[1] = 0 - 1000
    /\ \E id \in EditedIds :
         /\ Unclamped(call.prev.before[id], call.prev.args[1])
         /\ heap[id].start = call.prev.before[id].start
         /\ call.before[id].start # heap[id].start
    /\ \E id \in EditedIds :
         /\ call.prev.before[id].start = 50
         /\ call.before[id].start = 0

-----------------------------------------------------------------------------
(* Properties of the editor's workspace *)

\* The segments a workspace key holds in heap h and session ss, by value
Workspace(h, ss, key) ==
    IF ss[key] = None THEN None ELSE Some(Values(h, ss[key][1]))

\* C25: workspace isolation. The workspace sequences segments and
\* translated_segments change only when a save fires: a load, an upload, a
\* global shift, a table edit, a merge or a split leaves the start, end,
\* text and index of every segment of both sequences as they were.
C25_WorkspaceIsolation ==
    call.op \notin {"none", "save"}
        => \A key \in {"segments", "translated_segments"} :
               Workspace(heap, session, key) = Workspace(call.before, call.session, key)

\* C30: save routing. A save writes the edited sequence to
\* translated_segments if and only if the editor's source is the translation
\* result, and otherwise (recognition result or uploaded file) to segments;
\* the other workspace sequence is left as it was.
C30_SaveRouting ==
    call.op = "save"
        => LET target == IF call.session.editor_source = SourceTranslated
                         THEN "translated_segments" ELSE "segments"
               other  == IF call.session.editor_source = SourceTranslated
                         THEN "segments" ELSE "translated_segments"
           IN  /\ Workspace(heap, session, target)
                      = Some(Values(call.before, call.session.editor_segments[1]))
               /\ Workspace(heap, session, other)
                      = Workspace(call.before, call.session, other)
               /\ session[other] = call.session[other]

\* A save of an edited translation: the translation in the workspace is
\* replaced by the edited list, which differs from it, and the recognised
\* segments stay; and a save of an uploaded file goes to segments.
C30_Witness ==
    /\ call.op = "save"
    /\ call.session.editor_source = SourceTranslated
    /\ call.session.segments # None
    /\ Workspace(heap, session, "translated_segments")
           # Workspace(call.before, call.session, "translated_segments")
    /\ call.prev.op \in {"global_shift", "merge", "split", "table_edit"}

-----------------------------------------------------------------------------
(* The per-segment loops of the collaborators: utils/translator.py, lines   *)
(* 173-220, and utils/tts.py, lines 92-149. The running call is held in     *)
(* call: the list it was given, the loop position i (from 0) and the list   *)
(* built so far.                                                            *)

\* Segments as the pipeline hands them over: a spoken caption, a caption
\* with spaces around its text, a caption of one space, and a span without
\* text.
PipelineSamples ==
    { [start |-> 1000, end |-> 3500, text |-> HelloWorld],
      [start |-> 3500, end |-> 5000, text |-> <<" ", "B", "y", "e", " ">>],
      [start |-> 5000, end |-> 6000, text |-> <<" ">>],
      [start |-> 6000, end |-> 7000] }

PipelineInputs == ListsUpTo(PipelineSamples, MaxLen)

\* seg.get('text', '')
GetText(seg) == IF "text" \in DOMAIN seg THEN seg.text ELSE <<>>

\* What the translation service answers for text
Translation(text) == <<"t", "r", ":">> \o text

\* Variant: a failure of the service is not caught.
translate_Uncaught(text, outcome) ==
    IF text = <<>> \/ Strip(text) = <<>> THEN [raised |-> FALSE, ret |-> text]
    ELSE IF outcome = "ok" THEN [raised |-> FALSE, ret |-> Translation(text)]
    ELSE [raised |-> TRUE, ret |-> text]

\* MultiLangTranslator.translate(text), the service answering (outcome "ok")
\* or raising (outcome "raised"); a blank text does not reach the service.
translate(text, outcome) ==
    IF text = <<>> \/ Strip(text) = <<>> THEN [raised |-> FALSE, ret |-> text]
    ELSE IF outcome = "ok" THEN [raised |-> FALSE, ret |-> Translation(text)]
    ELSE [raised |-> FALSE, ret |-> text]

InitPipeline ==
    /\ heap = <<>>
    /\ segs = <<>>
    /\ session = NoSession
    /\ call = NoCall

\* translate_segments(segments) is entered: translated = [].
TranslateSegments ==
    /\ call = NoCall
    /\ \E segments \in PipelineInputs :
        call' = [op |-> "translate_segments", segments |-> segments, i |-> 0,
                 translated |-> <<>>, outcomes |-> <<>>,
                 returned |-> FALSE, raised |-> FALSE]
    /\ UNCHANGED <<heap, segs, session>>

\* One turn of the loop of translate_segments
TranslateNext ==
    /\ call.op = "translate_segments"
    /\ ~call.returned /\ ~call.raised
    /\ call.i < Len(call.segments)
    /\ \E outcome \in {"ok", "raised"} :
        LET seg  == call.segments[call.i + 1]
            text == GetText(seg)
            r    == translate(text, outcome)
        IN  call' = IF r.raised
                    THEN [call EXCEPT !.raised = TRUE,
                                      !.outcomes = Append(@, outcome)]
                    ELSE [call EXCEPT
                              !.translated = Append(@, [start    |-> seg.start,
                                                        end      |-> seg.end,
                                                        text     |-> r.ret,
                                                        original |-> text]),
                              !.outcomes = Append(@, outcome),
                              !.i = @ + 1]
    /\ UNCHANGED <<heap, segs, session>>

\* return translated
TranslateReturn ==
    /\ call.op = "translate_segments"
    /\ ~call.returned /\ ~call.raised
    /\ call.i = Len(call.segments)
    /\ call' = [call EXCEPT !.returned = TRUE]
    /\ UNCHANGED <<heap, segs, session>>

\* os.path.join(output_dir, f"segment_{i:04d}.mp3")
OutputPath(i) ==
    <<"o", "u", "t", "/", "s", "e", "g", "m", "e", "n", "t", "_">>
        \o FormatInt(i, 4) \o <<".", "m", "p", "3">>

\* Variant: the entry carries the position counted from 1.
AudioEntry_FromOne(seg, text, i, output_path) ==
    [path |-> output_path, start |-> seg.start, end |-> seg.end,
     text |-> text, index |-> i + 1]

\* The entry appended to audio_files for the segment at position i
AudioEntry(seg, text, i, output_path) ==
    [path |-> output_path, start |-> seg.start, end |-> seg.end,
     text |-> text, index |-> i]

\* synthesize_segments(segments, output_dir) is entered: audio_files = [].
\* requests lists the positions a synthesis request was issued for, pending
\* the requests not yet answered.
SynthesizeSegments ==
    /\ call = NoCall
    /\ \E segments \in PipelineInputs :
        call' = [op |-> "synthesize_segments", segments |-> segments, i |-> 0,
                 audio_files |-> <<>>, requests |-> <<>>, pending |-> {},
                 pc |-> "loop", returned |-> FALSE, raised |-> FALSE]
    /\ UNCHANGED <<heap, segs, session>>

\* if not text: continue
SynthesizeSkip ==
    /\ call.op = "synthesize_segments"
    /\ call.pc = "loop"
    /\ call.i < Len(call.segments)
    /\ Strip(GetText(call.segments[call.i + 1])) = <<>>
    /\ call' = [call EXCEPT !.i = @ + 1]
    /\ UNCHANGED <<heap, segs, session>>

\* await self.synthesize(text, output_path): the request is sent and the
\* loop waits for it.
SynthesizeRequest ==
    /\ call.op = "synthesize_segments"
    /\ call.pc = "loop"
    /\ call.i < Len(call.segments)
    /\ Strip(GetText(call.segments[call.i + 1])) # <<>>
    /\ call' = [call EXCEPT !.pc = "await",
                            !.requests = Append(@, call.i),
                            !.pending = @ \cup {call.i}]
    /\ UNCHANGED <<heap, segs, session>>

\* The request is answered: the entry is appended and the loop goes on.
SynthesizeDone ==
    /\ call.op = "synthesize_segments"
    /\ call.pc = "await"
    /\ LET seg == call.segments[call.i + 1] IN
       call' = [call EXCEPT
                    !.pc = "loop",
                    !.pending = @ \ {call.i},
                    !.audio_files = Append(@, AudioEntry(seg, Strip(GetText(seg)),
                                                         call.i, OutputPath(call.i))),
                    !.i = @ + 1]
    /\ UNCHANGED <<heap, segs, session>>

\* The request fails: the exception leaves synthesize_segments.
SynthesizeFails ==
    /\ call.op = "synthesize_segments"
    /\ call.pc = "await"
    /\ call' = [call EXCEPT !.pc = "raised", !.pending = @ \ {call.i},
                            !.raised = TRUE]
    /\ UNCHANGED <<heap, segs, session>>

\* return audio_files
SynthesizeReturn ==
    /\ call.op = "synthesize_segments"
    /\ call.pc = "loop"
    /\ call.i = Len(call.segments)
    /\ call' = [call EXCEPT !.pc = "returned", !.returned = TRUE]
    /\ UNCHANGED <<heap, segs, session>>

NextPipeline ==
    \/ TranslateSegments
    \/ TranslateNext
    \/ TranslateReturn
    \/ SynthesizeSegments
    \/ SynthesizeSkip
    \/ SynthesizeRequest
    \/ SynthesizeDone
    \/ SynthesizeFails
    \/ SynthesizeReturn

SpecPipeline == InitPipeline /\ [][NextPipeline]_vars

-----------------------------------------------------------------------------
(* Properties of the per-segment loops *)

\* The service was reached for the segment at position i (from 0) and answered.
Answered(i) ==
    /\ Strip(GetText(call.segments[i + 1])) # <<>>
    /\ call.outcomes[i + 1] = "ok"

\* C22: per-segment translation preserves structure. Whatever the service
\* does on each segment (answer or raise), translate_segments does not raise
\* and returns a list of the same length and order whose i-th element has
\* the i-th input's start and end, original equal to the i-th input's text
\* before translation, and text equal to the translation when the service
\* answered, or to the input text when it failed or the text was blank.
C22_TranslationPreservesStructure ==
    call.op = "translate_segments" =>
        /\ ~call.raised
        /\ Len(call.translated) = call.i
        /\ (call.returned => Len(call.translated) = Len(call.segments))
        /\ \A i \in 0..(Len(call.translated) - 1) :
             LET in  == call.segments[i + 1]
                 out == call.translated[i + 1]
             IN  /\ out.start = in.start
                 /\ out.end = in.end
                 /\ out.original = (IF "text" \in DOMAIN in THEN in.text ELSE <<>>)
                 /\ out.text = IF Answered(i) THEN Translation(out.original)
                               ELSE out.original

\* A returned call on three segments: the service answered for the first,
\* failed for the second, and the third was blank.
C22_Witness ==
    /\ call.op = "translate_segments"
    /\ call.returned
    /\ Len(call.segments) = 3
    /\ Answered(0)
    /\ Strip(GetText(call.segments[2])) # <<>>
    /\ call.outcomes[2] = "raised"
    /\ call.translated[2].text = call.segments[2].text
    /\ Strip(GetText(call.segments[3])) = <<>>

\* The positions (from 0) of the segments of l whose trimmed text is not empty
Spoken(l) == {i \in 0..(Len(l) - 1) : "text" \in DOMAIN l[i + 1] /\ Strip(l[i + 1].text) # <<>>}

\* The members of the set S of numbers in ascending order
RECURSIVE Ascending(_)
Ascending(S) ==
    IF S = {} THEN <<>>
    ELSE LET m == MinOf(S) IN <<m>> \o Ascending(S \ {m})

\* C29: synthesis requests follow the segments. synthesize_segments issues
\* its requests one at a time and in sequence order, and the list it
\* returns has one entry per segment whose trimmed text is not empty, in
\* input order, each with that segment's start and end, its position from 0
\* as index, and a path no other entry has.
C29_SynthesisFollowsSegments ==
    call.op = "synthesize_segments" =>
        /\ Cardinality(call.pending) <= 1
        /\ \A j \in 1..(Len(call.requests) - 1) : call.requests[j] < call.requests[j + 1]
        /\ call.returned =>
             LET positions == Ascending(Spoken(call.segments)) IN
             /\ call.requests = positions
             /\ Len(call.audio_files) = Len(positions)
             /\ \A j \in 1..Len(positions) :
                  LET entry == call.audio_files[j]
                      seg   == call.segments[positions[j] + 1]
                  IN  /\ entry.start = seg.start
                      /\ entry.end = seg.end
                      /\ entry.index = positions[j]
                      /\ \A k \in 1..Len(positions) :
                           k # j => call.audio_files[k].path # entry.path

\* A returned call on three segments, the middle one blank: two requests,
\* two entries, with index 0 and 2.
C29_Witness ==
    /\ call.op = "synthesize_segments"
    /\ call.returned
    /\ Len(call.segments) = 3
    /\ Spoken(call.segments) = {0, 2}
    /\ call.requests = <<0, 2>>
    /\ Len(call.audio_files) = 2
    /\ call.audio_files[2].index = 2
    /\ call.audio_files[1].path # call.audio_files[2].path

====
